---- MODULE Spec2Model ----
(***************************************************************************)
(* A model of rusty-git: the loose object store and tree hashing           *)
(* (object.rs), the staging index codec (index.rs, parser.rs), the         *)
(* pkt-line framing (packet_line.rs), the packfile decoder and index       *)
(* writer (pack.rs) and the upload-pack response (subcommand/clone.rs).    *)
(*                                                                         *)
(* Files and wire data are sequences of bytes (integers 0..255).  Each     *)
(* subsystem has its own specification; the variables of the other         *)
(* subsystems stay at their idle values there.                             *)
(***************************************************************************)
EXTENDS Integers, Sequences, FiniteSets, TLC

VARIABLES
    \* --- loose object store (.git/objects) ---
    objectDirs,   \* the prefix directories .git/objects/<xx> that exist
    objects,      \* published loose objects: 40-hex name -> file bytes
    lastHash,     \* the last hash() call: its object and what it returned
    readBack,     \* the result of the last ObjectBuf::read_at_hash
    \* --- staging index (.git/index) ---
    idx,          \* the Index value Index::write is called on
    indexFile,    \* the bytes of the index file on disk
    wpc,          \* where Index::write is: idle, body, checksum, trailer, done
    pending,      \* bytes handed to the file but not yet on disk
    readResult,   \* what the last Index::read returned
    \* --- pkt-line framing ---
    pktS,         \* the string a PacketLine is made of
    pktWire,      \* the bytes handed to pkt_line_next
    pktParsed,    \* what pkt_line_next returned
    pktPc,        \* start, encoded (wire = repr of pktS), raw (wire from the peer), parsed
    \* --- PacketLineStream and pkt_line_iter ---
    frames,       \* the strings of the PacketLines the peer sends ("" is a flush)
    wire,         \* the bytes the inner stream has still to deliver
    buf,          \* PacketLineStream.buf
    cursor,       \* PacketLineStream.cursor
    yielded,      \* the payloads the stream has returned so far
    streamPc,     \* open, done (the stream returned None), panic
    whole,        \* how many chunks arrived, if each was exactly one frame; else -1
    iterResult,   \* what draining pkt_line_iter over the whole input gave
    \* --- Pack::open ---
    packFile,     \* the bytes of the pack file
    packBuild,    \* debug or release: what an overflowing subtraction does
    packPc,       \* start, loop, ok, err, panic
    packOffset,   \* offset
    packContents, \* pack_contents
    packHeader,   \* version, obj_count and checksum as read
    packDecoded,  \* how many records the loop has started to decode
    packIndex,    \* the bytes of the index file Pack::write_index wrote
    packInstructions, \* the instructions parsed from the last delta record
    \* --- hashing a directory (write-tree) ---
    workTree,     \* the directory being hashed: name -> node
    treeEntries,  \* the entries of the last tree payload written, in written order
    \* --- fetch_packfile (clone) ---
    fetchPackets, \* the payloads of the pkt-lines of the response ("" is a flush)
    fetchInput,   \* the part of the response pkt_line_iter has still to read
    fetchPc,      \* start, lines, ok, err, panic
    fetchFirst,   \* the first packet, as pkt_line_str printed it
    packfile,     \* the bytes of the received pack
    \* --- the repository layout and checkout ---
    gitDirs,      \* the directories under .git that exist (paths)
    gitFiles,     \* HEAD and the ref files: path -> bytes
    checkout      \* what the last checkout did

storeVars == <<objectDirs, objects, lastHash, readBack>>
indexVars == <<idx, indexFile, wpc, pending, readResult>>
pktVars == <<pktS, pktWire, pktParsed, pktPc>>
streamVars == <<frames, wire, buf, cursor, yielded, streamPc, whole, iterResult>>
packVars ==
    <<packFile, packBuild, packPc, packOffset, packContents, packHeader, packDecoded, packIndex,
      packInstructions>>
treeVars == <<workTree, treeEntries>>
fetchVars == <<fetchPackets, fetchInput, fetchPc, fetchFirst, packfile>>
checkoutVars == <<gitDirs, gitFiles, checkout>>
vars ==
    <<storeVars, indexVars, pktVars, streamVars, packVars, treeVars, fetchVars, checkoutVars>>

-----------------------------------------------------------------------------
(* Bytes, integers and text                                                *)

\* The largest value the model's integers hold; wider values saturate here.
IntCap == (2^30 - 1) * 2 + 1

Min(a, b) == IF a < b THEN a ELSE b
Max(a, b) == IF a > b THEN a ELSE b

\* u32::to_be_bytes / u16::to_be_bytes: n as w big-endian bytes.
RECURSIVE ToBE(_, _)
ToBE(n, w) == IF w = 0 THEN <<>> ELSE Append(ToBE(n \div 256, w - 1), n % 256)

\* usize::from_be_bytes over the bytes read (parse_usize_exact).
RECURSIVE FromBE(_)
FromBE(b) ==
    IF b = <<>> THEN 0
    ELSE LET hi == FromBE(SubSeq(b, 1, Len(b) - 1))
         IN  IF hi >= 2^23 THEN IntCap ELSE hi * 256 + b[Len(b)]

\* Display for usize: ASCII decimal digits.
RECURSIVE Decimal(_)
Decimal(n) == IF n < 10 THEN <<48 + n>> ELSE Append(Decimal(n \div 10), 48 + (n % 10))

IsDigits(s) == s # <<>> /\ \A i \in 1 .. Len(s) : s[i] \in 48 .. 57

RECURSIVE DigitsValue(_)
DigitsValue(s) ==
    IF s = <<>> THEN 0
    ELSE LET hi == DigitsValue(SubSeq(s, 1, Len(s) - 1))
         IN  IF hi >= 2^23 THEN IntCap ELSE hi * 10 + (s[Len(s)] - 48)

\* str::parse::<usize>(): an optional '+', then at least one digit; -1 is Err.
ParseUsizeStr(s) ==
    LET d == IF s # <<>> /\ s[1] = 43 THEN SubSeq(s, 2, Len(s)) ELSE s
    IN  IF IsDigits(d) THEN DigitsValue(d) ELSE -1

\* {:x} of one nibble.
HexDigit(d) == IF d < 10 THEN 48 + d ELSE 87 + d

\* format!("{:x}", digest) / ObjectHash::from_bytes: two lowercase hex digits a byte.
ToHex(bytes) ==
    [i \in 1 .. 2 * Len(bytes) |->
        LET b == bytes[(i + 1) \div 2]
        IN  HexDigit(IF i % 2 = 1 THEN b \div 16 ELSE b % 16)]

\* String::from_utf8 accepts the bytes (ASCII only in this model: a byte >= 128
\* never starts a sequence the model's inputs complete).
IsUtf8(s) == \A i \in 1 .. Len(s) : s[i] < 128

\* The first index > pos holding byte x, or 0.
FindByte(d, pos, x) ==
    LET S == {i \in pos + 1 .. Len(d) : d[i] = x}
    IN  IF S = {} THEN 0 ELSE CHOOSE i \in S : \A j \in S : i <= j

\* Parser::parse_str: read_until(delim), from_utf8, pop the last char.
\* pos counts the bytes consumed so far.
ParseStr(d, pos, delim) ==
    LET e    == FindByte(d, pos, delim)
        stop == IF e = 0 THEN Len(d) ELSE e
        raw  == SubSeq(d, pos + 1, stop)
    IN  IF ~IsUtf8(raw) THEN [ok |-> FALSE, str |-> <<>>, pos |-> stop]
        ELSE [ok  |-> TRUE,
              str |-> IF raw = <<>> THEN <<>> ELSE SubSeq(raw, 1, Len(raw) - 1),
              pos |-> stop]

-----------------------------------------------------------------------------
(* SHA-1 and zlib                                                          *)

\* the weighted sum of the bytes j + 19 * k of b, k in lo .. hi
RECURSIVE LaneSum(_, _, _, _)
LaneSum(b, j, lo, hi) ==
    IF lo > hi THEN 0
    ELSE IF lo = hi THEN ((b[j + 19 * lo] + 1) * (1 + (j + 19 * lo - 1) \div 19)) % 256
    ELSE LET mid == (lo + hi) \div 2
         IN  (LaneSum(b, j, lo, mid) + LaneSum(b, j, mid + 1, hi)) % 256

DigestLane(b, j, acc) ==
    IF j > Len(b) THEN acc
    ELSE (acc + LaneSum(b, j, 0, (Len(b) - j) \div 19)) % 256

\* Sha1::new() ... finalize(): a 20-byte digest of the bytes fed in.  The model's
\* digest carries the length and 19 lanes of byte sums; it is collision-free on
\* inputs of at most 19 bytes and mixes longer ones.
Sha1(b) == [i \in 1 .. 20 |-> IF i = 1 THEN Len(b) % 256 ELSE DigestLane(b, i - 1, 0)]

\* the sum of b[i] * (w + 1 - i) over i in lo .. hi, and of b[i] where w = 0
RECURSIVE AdlerSum(_, _, _, _)
AdlerSum(b, lo, hi, w) ==
    IF lo > hi THEN 0
    ELSE IF lo = hi THEN (b[lo] * (IF w = 0 THEN 1 ELSE w + 1 - lo)) % 65521
    ELSE LET mid == (lo + hi) \div 2
         IN  (AdlerSum(b, lo, mid, w) + AdlerSum(b, mid + 1, hi, w)) % 65521

\* s1 after n bytes: 1 plus their sum
AdlerA(b, n) == (1 + AdlerSum(b, 1, n, 0)) % 65521

\* s2 after n bytes: the sum of s1 after each byte
AdlerB(b, n) == (n + AdlerSum(b, 1, n, n)) % 65521

\* The Adler-32 trailer of a zlib stream, big-endian.
Adler32(b) ==
    LET s1 == AdlerA(b, Len(b))
        s2 == AdlerB(b, Len(b))
    IN  <<s2 \div 256, s2 % 256, s1 \div 256, s1 % 256>>

\* ZlibEncoder: a zlib stream holding the data (one final stored block:
\* header 78 9c, BFINAL/BTYPE, LEN, NLEN little-endian, data, Adler-32).
ZlibEncode(data) ==
    LET n == Len(data)
    IN  <<120, 156, 1, n % 256, n \div 256, 255 - (n % 256), 255 - (n \div 256)>>
            \o data \o Adler32(data)

\* ZlibDecoder over the bytes after pos: the stream there, its inflated data
\* and the compressed bytes it spans.
ZlibStreamAt(d, pos) ==
    LET avail == Len(d) - pos
        n     == IF avail >= 5 THEN d[pos + 4] + 256 * d[pos + 5] ELSE 0
        ok    == /\ avail >= 11
                 /\ d[pos + 1] = 120 /\ d[pos + 2] = 156 /\ d[pos + 3] = 1
                 /\ d[pos + 6] = 255 - d[pos + 4] /\ d[pos + 7] = 255 - d[pos + 5]
                 /\ avail >= 11 + n
                 /\ SubSeq(d, pos + 8 + n, pos + 11 + n)
                        = Adler32(SubSeq(d, pos + 8, pos + 7 + n))
    IN  IF ok THEN [ok |-> TRUE, data |-> SubSeq(d, pos + 8, pos + 7 + n), span |-> 11 + n]
        ELSE [ok |-> FALSE, data |-> <<>>, span |-> 0]

-----------------------------------------------------------------------------
(* Objects: object.rs                                                      *)

ObjectType == {"Blob", "Commit", "Tree", "Tag"}

\* impl Display for ObjectType
ObjectTypeDisplay(t) ==
    CASE t = "Blob"   -> <<98, 108, 111, 98>>
      [] t = "Commit" -> <<99, 111, 109, 109, 105, 116>>
      [] t = "Tree"   -> <<116, 114, 101, 101>>
      [] t = "Tag"    -> <<116, 97, 103>>

\* impl FromStr for ObjectType; "Err" for an unrecognized name
ObjectTypeFromStr(s) ==
    IF \E t \in ObjectType : ObjectTypeDisplay(t) = s
    THEN CHOOSE t \in ObjectType : ObjectTypeDisplay(t) = s
    ELSE "Err"

\* An ObjectBuf: its kind, its declared length, and its contents reader
\* (the bytes and the reader's position in them).
ObjectBuf(t, len, bytes) ==
    [object_type |-> t, content_len |-> len, contents |-> bytes, pos |-> 0]

\* ObjectHashable::write for Object::Blob(path): "blob <meta.len()>\0", then
\* the file's bytes.
BlobWrite(file) == <<98, 108, 111, 98, 32>> \o Decimal(Len(file)) \o <<0>> \o file

\* ObjectBuf::write with the header's NUL terminator left out.
ObjectBufWriteNoNul(ob) ==
    ObjectTypeDisplay(ob.object_type) \o <<32>> \o Decimal(ob.content_len)
        \o SubSeq(ob.contents, ob.pos + 1, Len(ob.contents))

\* ObjectHashable::write for ObjectBuf: "<type> <content_len>\0", then what
\* is left of the contents reader.
ObjectBufWrite(ob) ==
    ObjectTypeDisplay(ob.object_type) \o <<32>> \o Decimal(ob.content_len) \o <<0>>
        \o SubSeq(ob.contents, ob.pos + 1, Len(ob.contents))

\* ObjectHash::from_hasher(...).as_hex()
ObjectName(framed) == ToHex(Sha1(framed))

\* The prefix directory of a name: .git/objects/<hex[..2]>
PrefixDir(hex) == SubSeq(hex, 1, 2)

\* create_dir with AlreadyExists returned as an error.
CreatePrefixDirStrict(dirs, d) ==
    IF d \in dirs THEN [ok |-> FALSE, dirs |-> dirs] ELSE [ok |-> TRUE, dirs |-> dirs \cup {d}]

\* std::fs::create_dir(&prefix_dir) as hash matches on it: Ok and AlreadyExists
\* both go on, any other error is returned.
CreatePrefixDir(dirs, d) == [ok |-> TRUE, dirs |-> dirs \cup {d}]

NoHash ==
    [op |-> "none", kind |-> "Blob", payload |-> <<>>, write |-> FALSE,
     existed |-> FALSE, result |-> "ok", hash |-> <<>>]

NoRead ==
    [name |-> <<>>, ok |-> FALSE, object_type |-> "Err", content_len |-> 0,
     payload |-> <<>>]

\* ObjectBuf::read_at_hash(hex) over a store, and the payload its contents
\* reader then streams (std::io::copy of contents.inner_mut()).
ReadAtHashOf(objs, hex) ==
    IF hex \notin DOMAIN objs THEN [NoRead EXCEPT !.name = hex]
    ELSE LET z    == ZlibStreamAt(objs[hex], 0)
             t    == ParseStr(z.data, 0, 32)
             kind == ObjectTypeFromStr(t.str)
             l    == ParseStr(z.data, t.pos, 0)
             n    == ParseUsizeStr(l.str)
         IN  IF ~z.ok \/ ~t.ok \/ kind = "Err" \/ ~l.ok \/ n < 0
             THEN [NoRead EXCEPT !.name = hex]
             ELSE [name |-> hex, ok |-> TRUE, object_type |-> kind, content_len |-> n,
                   payload |-> SubSeq(z.data, l.pos + 1, Len(z.data))]

\* ObjectHashable::hash(write): the framed bytes go through SHA-1; with write
\* they are also deflated into a temp file, the prefix directory is created
\* and the temp file is renamed to .git/objects/<xx>/<rest>.
Hash(op, kind, payload, framed, write) ==
    LET name == ObjectName(framed)
        mk   == CreatePrefixDir(objectDirs, PrefixDir(name))
        done == ~write \/ mk.ok
    IN  /\ IF write /\ mk.ok
           THEN /\ objectDirs' = mk.dirs
                /\ objects' = [n \in DOMAIN objects \cup {name} |->
                                  IF n = name THEN ZlibEncode(framed) ELSE objects[n]]
           ELSE UNCHANGED <<objectDirs, objects>>
        /\ lastHash' = [op |-> op, kind |-> kind, payload |-> payload, write |-> write,
                        existed |-> name \in DOMAIN objects,
                        result |-> IF done THEN "ok" ELSE "err",
                        hash |-> IF done THEN name ELSE <<>>]
        /\ readBack' = NoRead

\* hash-object [-w] <path>: the blob of the file at path.
HashObjectCmd(write, file) == Hash("blob", "Blob", file, BlobWrite(file), write)

\* hash(write) of a decoded ObjectBuf (Pack::open hashes with write = false,
\* Pack::unpack with write = true).
HashObjectBuf(write, t, payload) ==
    Hash("buf", t, payload, ObjectBufWrite(ObjectBuf(t, Len(payload), payload)), write)

\* ObjectBuf::read_at_hash(name)
ReadAtHash(hex) ==
    /\ readBack' = ReadAtHashOf(objects, hex)
    /\ UNCHANGED <<objectDirs, objects, lastHash>>

StoreIdle ==
    /\ objectDirs = {}
    /\ objects = <<>>
    /\ lastHash = NoHash
    /\ readBack = NoRead

-----------------------------------------------------------------------------
(* The staging index: index.rs, parser.rs, utils.rs                        *)

\* INDEX_HEADER, b"DIRC"
INDEX_HEADER == <<68, 73, 82, 67>>

\* IndexEntryType as u8
IndexEntryType == {8, 10, 14}

\* IndexEntryPermissions as u16: None, RegularFile 0o644, ExecutableFile 0o755
IndexEntryPermissions == {0, 420, 493}

\* a < b in byte-wise lexicographic order
SeqLess(a, b) ==
    \E k \in 0 .. Min(Len(a), Len(b)) :
        /\ \A i \in 1 .. k : a[i] = b[i]
        /\ \/ k = Len(a) /\ k < Len(b)
           \/ k < Len(a) /\ k < Len(b) /\ a[k + 1] < b[k + 1]

SatAdd(a, b) == IF a >= IntCap - b THEN IntCap ELSE a + b

Zeros(n) == [i \in 1 .. n |-> 0]

RECURSIVE Concat(_)
Concat(ss) == IF ss = <<>> THEN <<>> ELSE Head(ss) \o Concat(Tail(ss))

\* Index::write, step 4: the bytes of one entry.
EntryBytes(e) ==
    LET overflow == (62 + Len(e.name) + 1) % 8
    IN  ToBE(e.ctime, 4) \o ToBE(e.ctime_nsec, 4)
            \o ToBE(e.mtime_nsec, 4) \o ToBE(e.mtime_nsec, 4)
            \o ToBE(e.dev, 4) \o ToBE(e.ino, 4)
            \o <<0, 0>> \o ToBE((e.type * 4096) % 65536, 2)
            \o ToBE(e.uid, 4) \o ToBE(e.gid, 4) \o ToBE(e.size, 4)
            \o e.hash \o ToBE(e.flags, 2)
            \o e.name \o <<0>>
            \o (IF overflow > 0 THEN Zeros(8 - overflow) ELSE <<>>)

\* Index::write, steps 1 to 5: what the BufWriter holds before the checksum.
IndexBody(index) ==
    INDEX_HEADER \o ToBE(2, 4) \o ToBE(Len(index.entries), 4)
        \o Concat([i \in 1 .. Len(index.entries) |-> EntryBytes(index.entries[i])])

\* Parser::verify_checksum(file_size) after the 4 header bytes were read:
\* skip(file_size - 4 - 20), read the 20 trailer bytes, SHA-1 the rest.
\* The subtraction overflows below 24 bytes: a debug build panics on it, a
\* release build wraps and seeks backwards, which fails (and is unwrapped)
\* below 20 bytes.
VerifyChecksum(f, build) ==
    LET size == Len(f)
    IN  IF size < 24 /\ build = "debug" THEN "panic"
        ELSE IF size < 20 THEN "panic"
        ELSE IF Sha1(SubSeq(f, 1, size - 20)) # SubSeq(f, size - 19, size) THEN "err"
        ELSE "ok"

NoIndex == [version |-> 0, entries |-> <<>>]

\* Index::read, one turn of the entry loop at position p.
ReadEntry(f, p, version) ==
    LET at(o, w) == FromBE(SubSeq(f, p + o + 1, p + o + w))
        mode     == at(26, 2)
        flags    == at(60, 2)
        nm       == ParseStr(f, p + 62, 0)
        len      == 62 + Len(nm.str) + 1
        pad      == (8 - (len % 8)) % 8
        type     == (mode \div 4096) % 16
        perm     == mode % 512
    IN  IF p + 62 > Len(f) THEN [status |-> "err"]
        ELSE IF version >= 3 THEN [status |-> "panic"]
        ELSE IF ~nm.ok THEN [status |-> "err"]
        ELSE IF Len(nm.str) <= 4095 /\ Len(nm.str) # flags % 4096 THEN [status |-> "err"]
        ELSE IF type \notin IndexEntryType \/ perm \notin IndexEntryPermissions
             THEN [status |-> "err"]
        ELSE [status |-> "ok",
              pos |-> nm.pos + pad,
              entry_len |-> len + pad,
              entry |-> [ctime |-> at(0, 4), ctime_nsec |-> at(4, 4),
                         mtime |-> at(8, 4), mtime_nsec |-> at(12, 4),
                         dev |-> at(16, 4), ino |-> at(20, 4),
                         uid |-> at(28, 4), gid |-> at(32, 4), size |-> at(36, 4),
                         type |-> type, permissions |-> perm,
                         hash |-> SubSeq(f, p + 41, p + 60),
                         name |-> nm.str, flags |-> flags, flags_ext |-> 0]]

\* Index::read, the loop over extensions up to the trailer.
RECURSIVE ReadExtensions(_, _, _)
ReadExtensions(f, p, offset) ==
    IF offset = Len(f) - 20 THEN "ok"
    ELSE IF p + 8 > Len(f) THEN "err"
    ELSE LET ext_size == FromBE(SubSeq(f, p + 5, p + 8))
         IN  ReadExtensions(f, SatAdd(p + 8, ext_size), SatAdd(offset + 8, ext_size))

\* Index::read, the entry loop: n entries are still to read.
RECURSIVE ReadEntries(_, _, _, _, _, _)
ReadEntries(f, p, offset, version, n, acc) ==
    IF n = 0
    THEN [status |-> ReadExtensions(f, p, offset), entries |-> acc]
    ELSE LET r == ReadEntry(f, p, version)
         IN  IF r.status # "ok" THEN [status |-> r.status, entries |-> acc]
             ELSE ReadEntries(f, r.pos, offset + r.entry_len, version, n - 1,
                              Append(acc, r.entry))

\* Index::read(path) of a file holding f.
IndexReadOf(f, build) ==
    IF Len(f) < 4 \/ SubSeq(f, 1, 4) # INDEX_HEADER THEN [status |-> "err", index |-> NoIndex]
    ELSE LET v == VerifyChecksum(f, build)
         IN  IF v # "ok" THEN [status |-> v, index |-> NoIndex]
             ELSE IF Len(f) < 12 THEN [status |-> "err", index |-> NoIndex]
             ELSE LET version == f[8]
                      r == ReadEntries(f, 12, 12, version, FromBE(SubSeq(f, 9, 12)), <<>>)
                  IN  IF r.status # "ok" THEN [status |-> r.status, index |-> NoIndex]
                      ELSE [status |-> "ok",
                            index |-> [version |-> version, entries |-> r.entries]]

NoIndexRead == [status |-> "none", index |-> NoIndex, torn |-> FALSE, size |-> 0]

\* Index::write opens the file with truncate(true); the entries go into the
\* BufWriter.
WriteOpen ==
    /\ wpc = "idle"
    /\ wpc' = "body"
    /\ indexFile' = <<>>
    /\ pending' = IndexBody(idx)
    /\ readResult' = NoIndexRead
    /\ UNCHANGED idx

\* n more bytes reach the file (BufWriter::into_inner flushes the body,
\* append_checksum writes the trailer; write_all may take several writes).
WriteBytes(n) ==
    /\ wpc \in {"body", "trailer"}
    /\ n \in 1 .. Len(pending)
    /\ indexFile' = indexFile \o SubSeq(pending, 1, n)
    /\ pending' = SubSeq(pending, n + 1, Len(pending))
    /\ wpc' = IF n < Len(pending) THEN wpc
              ELSE IF wpc = "body" THEN "checksum" ELSE "done"
    /\ readResult' = NoIndexRead
    /\ UNCHANGED idx

\* append_checksum: seek to 0, SHA-1 the file, write the digest at its end.
AppendChecksum ==
    /\ wpc = "checksum"
    /\ pending' = Sha1(indexFile)
    /\ wpc' = "trailer"
    /\ readResult' = NoIndexRead
    /\ UNCHANGED <<idx, indexFile>>

\* Index::read by another process, whatever the writer has done so far.
IndexRead(build) ==
    /\ wpc # "idle"
    /\ readResult' = [status |-> IndexReadOf(indexFile, build).status,
                      index  |-> IndexReadOf(indexFile, build).index,
                      torn   |-> wpc # "done",
                      size   |-> Len(indexFile)]
    /\ UNCHANGED <<idx, indexFile, wpc, pending>>

IndexIdle ==
    /\ idx = NoIndex
    /\ indexFile = <<>>
    /\ wpc = "idle"
    /\ pending = <<>>
    /\ readResult = NoIndexRead


-----------------------------------------------------------------------------
(* pkt-line framing: packet_line.rs, subcommand/clone.rs                   *)

\* the value of one hex digit, -1 if it is none
HexVal(c) ==
    IF c \in 48 .. 57 THEN c - 48
    ELSE IF c \in 97 .. 102 THEN c - 87
    ELSE IF c \in 65 .. 70 THEN c - 55
    ELSE -1

RECURSIVE HexDigitsValue(_)
HexDigitsValue(s) ==
    IF s = <<>> THEN 0 ELSE 16 * HexDigitsValue(SubSeq(s, 1, Len(s) - 1)) + HexVal(s[Len(s)])

\* usize::from_str_radix(s, 16): an optional '+', then hex digits; -1 is Err.
FromStrRadix16(s) ==
    LET digits == IF s # <<>> /\ s[1] = 43 THEN Tail(s) ELSE s
    IN  IF digits = <<>> \/ \E i \in 1 .. Len(digits) : HexVal(digits[i]) < 0
        THEN -1 ELSE HexDigitsValue(digits)

RECURSIVE LowerHex(_)
LowerHex(n) == IF n < 16 THEN <<HexDigit(n)>> ELSE Append(LowerHex(n \div 16), HexDigit(n % 16))

\* format!("{:04x}", n): at least four digits, zero-padded on the left.
Hex04(n) == LET h == LowerHex(n) IN [i \in 1 .. 4 - Len(h) |-> 48] \o h

\* a plausible slip: the length counts the string and the header, not the '\n'
PacketLineReprShort(s) ==
    IF s = <<>> THEN <<48, 48, 48, 48>> ELSE Hex04(Len(s) + 4) \o s \o <<10>>

\* PacketLine::new(s).repr()
PacketLineRepr(s) ==
    IF s = <<>> THEN <<48, 48, 48, 48>> ELSE Hex04(Len(s) + 5) \o s \o <<10>>

NoPacket == [n |-> 0, some |-> FALSE, packet |-> <<>>, panic |-> FALSE]

\* pkt_line_next(input): (bytes consumed, Some(payload) | None), or a panic.
PktLineNext(input) ==
    IF Len(input) < 4 THEN NoPacket
    ELSE LET len == IF IsUtf8(SubSeq(input, 1, 4)) THEN FromStrRadix16(SubSeq(input, 1, 4))
                    ELSE -1
         IN  IF len < 0 THEN [NoPacket EXCEPT !.panic = TRUE]
             ELSE IF len = 0 THEN [NoPacket EXCEPT !.n = 4]
             ELSE IF Len(input) < len THEN NoPacket
             ELSE IF len < 4 THEN [NoPacket EXCEPT !.panic = TRUE]
             ELSE [n |-> len, some |-> TRUE, packet |-> SubSeq(input, 5, len), panic |-> FALSE]

\* pkt_line_iter(input) of packet_line.rs, drained.
RECURSIVE PktLineIter(_, _)
PktLineIter(input, acc) ==
    IF input = <<>> THEN [status |-> "ok", packets |-> acc]
    ELSE LET r == PktLineNext(input)
             rest == SubSeq(input, r.n + 1, Len(input))
         IN  IF r.panic THEN [status |-> "panic", packets |-> acc]
             ELSE IF r.some THEN PktLineIter(rest, Append(acc, r.packet))
             ELSE IF r.n = 4 THEN PktLineIter(rest, acc)
             ELSE [status |-> "panic", packets |-> acc]

\* pkt_line_iter(input) of subcommand/clone.rs, drained.
RECURSIVE ClonePktLineIter(_, _)
ClonePktLineIter(input, acc) ==
    IF input = <<>> THEN [status |-> "ok", packets |-> acc]
    ELSE IF Len(input) < 4 \/ ~IsUtf8(SubSeq(input, 1, 4))
         THEN [status |-> "panic", packets |-> acc]
    ELSE LET len == FromStrRadix16(SubSeq(input, 1, 4))
         IN  IF len < 0 THEN [status |-> "panic", packets |-> acc]
             ELSE IF len = 0 THEN ClonePktLineIter(SubSeq(input, 5, Len(input)), acc)
             ELSE IF len > Len(input) \/ len < 4 THEN [status |-> "panic", packets |-> acc]
             ELSE ClonePktLineIter(SubSeq(input, len + 1, Len(input)),
                                   Append(acc, SubSeq(input, 5, len)))

\* PacketLine::new(pktS).repr()
Repr ==
    /\ pktPc = "start"
    /\ pktWire' = PacketLineRepr(pktS)
    /\ pktPc' = "encoded"
    /\ UNCHANGED <<pktS, pktParsed>>

\* bytes that come from the peer instead
Receive(input) ==
    /\ pktPc = "start"
    /\ pktS = <<>>
    /\ pktWire' = input
    /\ pktPc' = "raw"
    /\ UNCHANGED <<pktS, pktParsed>>

\* pkt_line_next(pktWire)
Parse ==
    /\ pktPc \in {"encoded", "raw"}
    /\ pktParsed' = [from |-> pktPc, result |-> PktLineNext(pktWire)]
    /\ pktPc' = "parsed"
    /\ UNCHANGED <<pktS, pktWire>>

PktIdle ==
    /\ pktS = <<>>
    /\ pktWire = <<>>
    /\ pktParsed = [from |-> "none", result |-> NoPacket]
    /\ pktPc = "start"

\* PacketLineStream::poll_next, the arm for a chunk of n bytes from the inner
\* stream: extend buf, look for one packet at the cursor.
Chunk(n) ==
    /\ streamPc = "open"
    /\ n \in 1 .. Len(wire)
    /\ LET newBuf == buf \o SubSeq(wire, 1, n)
           r == PktLineNext(SubSeq(newBuf, cursor + 1, Len(newBuf)))
           frame == IF whole >= 0 /\ whole < Len(frames)
                    THEN PacketLineRepr(frames[whole + 1]) ELSE <<>>
       IN  /\ buf' = newBuf
           /\ wire' = SubSeq(wire, n + 1, Len(wire))
           /\ streamPc' = IF r.panic THEN "panic" ELSE "open"
           /\ cursor' = IF r.some THEN cursor + r.n ELSE cursor
           /\ yielded' = IF r.some THEN Append(yielded, r.packet) ELSE yielded
           /\ whole' = IF whole >= 0 /\ n = Len(frame) THEN whole + 1 ELSE -1
    /\ UNCHANGED <<frames, iterResult>>

\* PacketLineStream::poll_next, the arm for the end of the inner stream.
InnerEnd ==
    /\ streamPc = "open"
    /\ wire = <<>>
    /\ streamPc' = "done"
    /\ UNCHANGED <<frames, wire, buf, cursor, yielded, whole, iterResult>>

NoIter == [status |-> "none", packets |-> <<>>, clone |-> <<>>]

\* the whole response drained through pkt_line_iter, as clone does
Iterate ==
    /\ iterResult = NoIter
    /\ buf = <<>>
    /\ LET input == Concat([i \in 1 .. Len(frames) |-> PacketLineRepr(frames[i])])
       IN  iterResult' = [status |-> PktLineIter(input, <<>>).status,
                          packets |-> PktLineIter(input, <<>>).packets,
                          clone |-> ClonePktLineIter(input, <<>>)]
    /\ UNCHANGED <<frames, wire, buf, cursor, yielded, streamPc, whole>>

StreamIdle ==
    /\ frames = <<>>
    /\ wire = <<>>
    /\ buf = <<>>
    /\ cursor = 0
    /\ yielded = <<>>
    /\ streamPc = "open"
    /\ whole = 0
    /\ iterResult = NoIter

-----------------------------------------------------------------------------
(* Pack files: pack.rs, parser.rs                                          *)

Bit(x, k) == (x \div (2 ^ k)) % 2

\* v << shift on a usize, saturating where the model's integers end
Shl(v, shift) == IF v = 0 THEN 0 ELSE IF shift > 23 THEN IntCap ELSE v * (2 ^ shift)

\* Parser::parse_size_enc_bytes at position pos: bytes up to the first one
\* with the high bit clear.
RECURSIVE ParseSizeEncBytes(_, _, _)
ParseSizeEncBytes(d, pos, acc) ==
    IF pos >= Len(d) THEN [ok |-> FALSE, bytes |-> acc]
    ELSE IF d[pos + 1] < 128 THEN [ok |-> TRUE, bytes |-> Append(acc, d[pos + 1])]
    ELSE ParseSizeEncBytes(d, pos + 1, Append(acc, d[pos + 1]))

\* size_enc_init(size_bytes, init_n, init_shift)
RECURSIVE size_enc_init(_, _, _)
size_enc_init(size_bytes, init_n, init_shift) ==
    IF size_bytes = <<>> THEN init_n
    ELSE size_enc_init(Tail(size_bytes),
                       SatAdd(init_n, Shl(Head(size_bytes) % 128, init_shift)),
                       init_shift + 7)

\* size_enc(size_bytes)
size_enc(size_bytes) == size_enc_init(size_bytes, 0, 0)

\* crc32fast::Hasher over the bytes: the model's CRC is a 4-byte checksum, the
\* polynomial is not modelled.
Crc32(b) == Adler32(<<Len(b) % 256>> \o b)

\* Parser::split_off_decode(size) at position pos: the outcomes it can have.
\* read_exact into an empty buffer reads nothing, so size 0 consumes nothing;
\* a stream that inflates to more than size bytes is left where the decoder
\* happened to stop.
SplitOffDecode(d, pos, size) ==
    LET z == ZlibStreamAt(d, pos)
    IN  IF size = 0 THEN {[ok |-> TRUE, consumed |-> 0, contents |-> <<>>]}
        ELSE IF ~z.ok \/ Len(z.data) < size
             THEN {[ok |-> FALSE, consumed |-> 0, contents |-> <<>>]}
        ELSE IF Len(z.data) = size
             THEN {[ok |-> TRUE, consumed |-> z.span, contents |-> z.data]}
        ELSE {[ok |-> TRUE, consumed |-> c, contents |-> SubSeq(z.data, 1, size)] :
                 c \in 7 + size .. z.span}

\* the offset and size bytes of a copy instruction, as its low 7 bits select
RECURSIVE CopyFields(_, _, _, _, _, _)
CopyFields(c, pos, instr, k, offset, size) ==
    IF k = 7 THEN [ok |-> TRUE, offset |-> offset, size |-> size, pos |-> pos]
    ELSE IF Bit(instr, k) = 0 THEN CopyFields(c, pos, instr, k + 1, offset, size)
    ELSE IF pos >= Len(c) THEN [ok |-> FALSE, offset |-> offset, size |-> size, pos |-> pos]
    ELSE IF k < 4
         THEN CopyFields(c, pos + 1, instr, k + 1, SatAdd(offset, Shl(c[pos + 1], 8 * k)), size)
    ELSE CopyFields(c, pos + 1, instr, k + 1, offset, SatAdd(size, Shl(c[pos + 1], 8 * (k - 4))))

\* the instruction loop of a delta: while !contents.at_eof() { ... }
RECURSIVE ParseInstructions(_, _, _)
ParseInstructions(c, pos, acc) ==
    IF pos >= Len(c) THEN [ok |-> TRUE, instructions |-> acc]
    ELSE LET instr == c[pos + 1]
         IN  IF instr < 128
             THEN IF pos + 1 + instr > Len(c) THEN [ok |-> FALSE, instructions |-> acc]
                  ELSE ParseInstructions(c, pos + 1 + instr,
                           Append(acc, [op |-> "Add", data |-> SubSeq(c, pos + 2, pos + 1 + instr)]))
             ELSE LET f == CopyFields(c, pos + 1, instr, 0, 0, 0)
                  IN  IF ~f.ok THEN [ok |-> FALSE, instructions |-> acc]
                      ELSE ParseInstructions(c, f.pos,
                               Append(acc, [op |-> "Copy", offset |-> f.offset, size |-> f.size]))

\* the instructions applied to the base; slicing out of range panics
RECURSIVE ApplyDelta(_, _, _)
ApplyDelta(base, instructions, obj_buf) ==
    IF instructions = <<>> THEN [ok |-> TRUE, obj_buf |-> obj_buf]
    ELSE LET i == Head(instructions)
         IN  IF i.op = "Add" THEN ApplyDelta(base, Tail(instructions), obj_buf \o i.data)
             ELSE IF i.offset > Len(base) \/ i.size > Len(base) - i.offset
                  THEN [ok |-> FALSE, obj_buf |-> obj_buf]
             ELSE ApplyDelta(base, Tail(instructions),
                             obj_buf \o SubSeq(base, i.offset + 1, i.offset + i.size))

PackObjectType(obj_type) ==
    CASE obj_type = 1 -> "Commit" [] obj_type = 2 -> "Tree"
      [] obj_type = 3 -> "Blob" [] obj_type = 4 -> "Tag"

RecordErr == [status |-> "err"]
RecordPanic == [status |-> "panic"]

\* PackedObject { hash, crc32, size, offset, inner } after one record, with
\* the bytes the loop advances by and the instructions Vec the arm built.
\* The usize offset is held as offset_hi * 2^31 + offset, since the model's
\* integers end at 2^31 - 1; the files opened here are short, so offset_hi = 0.
Decoded(f, offset, advance, crcLen, object, instructions) ==
    [status |-> "ok",
     advance |-> advance,
     instructions |-> instructions,
     entry |-> [hash |-> Sha1(ObjectBufWrite(object)),
                crc32 |-> Crc32(SubSeq(f, offset + 1, Min(Len(f), offset + crcLen))),
                size |-> object.content_len,
                offset |-> offset,
                offset_hi |-> 0,
                inner |-> object]]

\* the arm for OBJ_REF_DELTA, r being what split_off_decode returned
RefDelta(f, offset, hdrLen, base_hash, r, contents) ==
    LET c == r.contents
        size_base_bytes == ParseSizeEncBytes(c, 0, <<>>)
        size_new_bytes == ParseSizeEncBytes(c, Len(size_base_bytes.bytes), <<>>)
        parsed == ParseInstructions(c, Len(size_base_bytes.bytes) + Len(size_new_bytes.bytes), <<>>)
        found == {i \in 1 .. Len(contents) : contents[i].hash = base_hash}
        base_obj == contents[CHOOSE i \in found : \A j \in found : i <= j]
        applied == ApplyDelta(base_obj.inner.contents, parsed.instructions, <<>>)
    IN  IF ~r.ok \/ ~size_base_bytes.ok \/ ~size_new_bytes.ok \/ ~parsed.ok THEN RecordErr
        ELSE IF found = {} THEN RecordPanic
        ELSE IF ~applied.ok THEN RecordPanic
        ELSE Decoded(f, offset, hdrLen + r.consumed + 20, r.consumed + hdrLen + 20,
                     ObjectBuf(base_obj.inner.object_type, size_enc(size_new_bytes.bytes),
                               applied.obj_buf),
                     parsed.instructions)

\* one turn of the loop of Pack::open at offset: the outcomes it can have
RecordOutcomes(f, offset, contents) ==
    LET size_bytes == ParseSizeEncBytes(f, offset, <<>>)
        hdrLen == Len(size_bytes.bytes)
        obj_type == (size_bytes.bytes[1] \div 16) % 8
        size == size_enc_init(Tail(size_bytes.bytes), size_bytes.bytes[1] % 16, 4)
        p == offset + hdrLen
    IN  IF ~size_bytes.ok THEN {RecordErr}
        ELSE IF obj_type \in {0, 5} THEN {RecordErr}
        ELSE IF obj_type = 6 THEN {RecordPanic}
        ELSE IF obj_type = 7
             THEN IF p + 20 > Len(f) THEN {RecordErr}
                  ELSE {RefDelta(f, offset, hdrLen, SubSeq(f, p + 1, p + 20), r, contents) :
                           r \in SplitOffDecode(f, p + 20, size)}
        ELSE {IF ~r.ok THEN RecordErr
              ELSE Decoded(f, offset, hdrLen + r.consumed, r.consumed + hdrLen,
                           ObjectBuf(PackObjectType(obj_type), size, r.contents), <<>>) :
                 r \in SplitOffDecode(f, p, size)}

\* a plausible slip: the list is returned in stream order
SortByHashForgotten(es) == es

\* pack_contents.sort_by_key(|obj| obj.hash.as_bytes()): a stable sort
RECURSIVE SortByHash(_)
SortByHash(es) ==
    IF es = <<>> THEN <<>>
    ELSE LET sorted == SortByHash(SubSeq(es, 1, Len(es) - 1))
             last == es[Len(es)]
             k == Cardinality({i \in 1 .. Len(sorted) : ~SeqLess(last.hash, sorted[i].hash)})
         IN  SubSeq(sorted, 1, k) \o <<last>> \o SubSeq(sorted, k + 1, Len(sorted))

\* a plausible slip: the trailer is read but never compared
TrailerUnchecked(f) == TRUE

\* sha1 == checksum: the SHA-1 of all but the last 20 bytes against the last 20
TrailerMatches(f) == Sha1(SubSeq(f, 1, Len(f) - 20)) = SubSeq(f, Len(f) - 19, Len(f))

NoPackHeader == [version |-> 0, obj_count |-> 0, checksum |-> <<>>]

\* Pack::open up to the loop: the magic, the trailer check, version and count.
PackOpenVerify ==
    /\ packPc = "start"
    /\ LET size == Len(packFile)
           magicOk == /\ size >= 4
                      /\ IsUtf8(SubSeq(packFile, 1, 4))
                      /\ SubSeq(packFile, 1, 4) = <<80, 65, 67, 75>>
       IN  /\ packPc' = IF ~magicOk THEN "err"
                        ELSE IF size < 24 /\ packBuild = "debug" THEN "panic"
                        ELSE IF size < 20 THEN "panic"
                        ELSE IF ~TrailerMatches(packFile) THEN "err"
                        ELSE "loop"
           /\ packHeader' = IF packPc' = "loop"
                            THEN [version |-> FromBE(SubSeq(packFile, 5, 8)),
                                  obj_count |-> FromBE(SubSeq(packFile, 9, 12)),
                                  checksum |-> SubSeq(packFile, size - 19, size)]
                            ELSE packHeader
           /\ packOffset' = IF packPc' = "loop" THEN 12 ELSE packOffset
    /\ UNCHANGED <<packFile, packBuild, packContents, packDecoded, packIndex, packInstructions>>

\* one turn of the loop: offset is not yet at the trailer
PackDecodeRecord ==
    /\ packPc = "loop"
    /\ packOffset # Len(packFile) - 20
    /\ \E out \in RecordOutcomes(packFile, packOffset, packContents) :
          /\ packPc' = IF out.status = "ok" THEN "loop" ELSE out.status
          /\ packContents' = IF out.status = "ok" THEN Append(packContents, out.entry)
                             ELSE packContents
          /\ packOffset' = IF out.status = "ok" THEN packOffset + out.advance ELSE packOffset
          /\ packInstructions' = IF out.status = "ok" THEN out.instructions
                                 ELSE packInstructions
    /\ packDecoded' = packDecoded + 1
    /\ UNCHANGED <<packFile, packBuild, packHeader, packIndex>>

\* the loop ends at the trailer: sort and return the Pack
PackFinish ==
    /\ packPc = "loop"
    /\ packOffset = Len(packFile) - 20
    /\ packContents' = SortByHash(packContents)
    /\ packPc' = "ok"
    /\ UNCHANGED <<packFile, packBuild, packOffset, packHeader, packDecoded, packIndex,
                   packInstructions>>

\* IDX_MAGIC_NUM
IDX_MAGIC_NUM == <<255, 116, 79, 99>>

\* IDX_VERSION
IDX_VERSION == 2

\* FanOutTable::new and FanOutTable::add for every object: inner[b] is the
\* number of names that begin with byte b
RECURSIVE FanOutTable(_)
FanOutTable(contents) ==
    IF contents = <<>> THEN [b \in 0 .. 255 |-> 0]
    ELSE LET inner == FanOutTable(SubSeq(contents, 1, Len(contents) - 1))
             first_byte == contents[Len(contents)].hash[1]
         IN  [inner EXCEPT ![first_byte] = @ + 1]

\* the iterator of cum_freq over inner[lo..hi], sum being what it has added
\* up before lo: sum += inner[i], yield sum (the range is halved to keep the
\* evaluation shallow)
RECURSIVE CumFreqFrom(_, _, _, _)
CumFreqFrom(inner, lo, hi, sum) ==
    IF lo > hi THEN <<>>
    ELSE IF lo = hi THEN <<sum + inner[lo]>>
    ELSE LET mid == (lo + hi) \div 2
             left == CumFreqFrom(inner, lo, mid, sum)
         IN  left \o CumFreqFrom(inner, mid + 1, hi, left[Len(left)])

\* a plausible slip: the iterator stops one entry early
cum_freq_short(inner) == CumFreqFrom(inner, 0, 254, 0)

\* FanOutTable::cum_freq: i runs over 0 .. inner.len() - 1
cum_freq(inner) == CumFreqFrom(inner, 0, 255, 0)

\* the big-endian bytes of a sequence of u32, one after the other
U32Bytes(ns) == [j \in 1 .. 4 * Len(ns) |-> ToBE(ns[(j + 3) \div 4], 4)[((j - 1) % 4) + 1]]

\* (obj.offset as u64).to_be_bytes() of offset_hi * 2^31 + offset
U64OffsetBytes(e) ==
    ToBE(e.offset_hi \div 2, 4)
        \o <<128 * (e.offset_hi % 2) + e.offset \div (2 ^ 24)>>
        \o ToBE(e.offset % (2 ^ 24), 3)

\* (0x80_00_00_00 & (len as u32)).to_be_bytes(): bit 31 of len, and nothing else
Layer5Index(len) == <<128 * (((len \div (2 ^ 30)) \div 2) % 2), 0, 0, 0>>

\* layer 4 and layer 5 of the index: 4-byte offsets, and 8-byte ones for the
\* offsets that need more than 31 bits
RECURSIVE Offsets(_, _, _, _)
Offsets(contents, i, layer4, large_offsets) ==
    IF i > Len(contents) THEN layer4 \o Concat(large_offsets)
    ELSE IF contents[i].offset_hi = 0
         THEN Offsets(contents, i + 1, layer4 \o ToBE(contents[i].offset, 4), large_offsets)
    ELSE Offsets(contents, i + 1, layer4 \o Layer5Index(Len(large_offsets)),
                 Append(large_offsets, U64OffsetBytes(contents[i])))

\* Pack::write_index: what is in the file when it returns
IndexFileOf(contents, checksum) ==
    LET n == Len(contents)
        freqs == cum_freq(FanOutTable(contents))
        body == IDX_MAGIC_NUM \o ToBE(IDX_VERSION, 4)
                    \o U32Bytes(freqs)
                    \o Concat([k \in 1 .. n |-> contents[k].hash])
                    \o Concat([k \in 1 .. n |-> contents[k].crc32])
                    \o Offsets(contents, 1, <<>>, <<>>)
                    \o checksum
    IN  body \o Sha1(body)

\* index-pack: Pack::open(..)?.write_index(..)
PackWriteIndex ==
    /\ packPc = "ok"
    /\ packIndex' = IndexFileOf(packContents, packHeader.checksum)
    /\ packPc' = "indexed"
    /\ UNCHANGED <<packFile, packBuild, packOffset, packContents, packHeader, packDecoded,
                   packInstructions>>

\* Pack::unpack: hash(true) of the inner ObjectBuf of every entry, in order.
\* Each hash streams what is left of the entry's contents reader and leaves
\* the reader at its end.
PackUnpack ==
    /\ packPc = "ok"
    /\ LET n == Len(packContents)
           framed == [i \in 1 .. n |-> ObjectBufWrite(packContents[i].inner)]
           names == {ObjectName(framed[i]) : i \in 1 .. n}
       IN  /\ packContents' = [i \in 1 .. n |->
                                  [packContents[i] EXCEPT
                                      !.inner.pos = Len(packContents[i].inner.contents)]]
           /\ objectDirs' = objectDirs \cup {PrefixDir(h) : h \in names}
           /\ objects' = [h \in DOMAIN objects \cup names |->
                             IF h \in names
                             THEN ZlibEncode(framed[CHOOSE i \in 1 .. n : ObjectName(framed[i]) = h])
                             ELSE objects[h]]
           /\ lastHash' = IF n = 0 THEN lastHash
                          ELSE [op |-> "buf", kind |-> packContents[n].inner.object_type,
                                payload |-> SubSeq(packContents[n].inner.contents,
                                                   packContents[n].inner.pos + 1,
                                                   Len(packContents[n].inner.contents)),
                                write |-> TRUE,
                                existed |-> \/ ObjectName(framed[n]) \in DOMAIN objects
                                            \/ \E i \in 1 .. n - 1 :
                                                   ObjectName(framed[i]) = ObjectName(framed[n]),
                                result |-> "ok",
                                hash |-> ObjectName(framed[n])]
           /\ readBack' = IF n = 0 THEN readBack ELSE NoRead
    /\ UNCHANGED <<packFile, packBuild, packPc, packOffset, packHeader, packDecoded, packIndex,
                   packInstructions>>

PackIdle ==
    /\ packFile = <<>>
    /\ packBuild = "debug"
    /\ packPc = "start"
    /\ packOffset = 0
    /\ packContents = <<>>
    /\ packHeader = NoPackHeader
    /\ packDecoded = 0
    /\ packIndex = <<>>
    /\ packInstructions = <<>>

-----------------------------------------------------------------------------
(* Hashing a directory: object.rs, write_tree.rs                           *)

ObjectMode == {"Symlink", "Directory", "Executable", "Normal"}

\* Display for ObjectMode
ObjectModeDisplay(m) ==
    CASE m = "Symlink" -> <<49, 50, 48, 48, 48, 48>>
      [] m = "Directory" -> <<52, 48, 48, 48, 48>>
      [] m = "Executable" -> <<49, 48, 48, 55, 53, 53>>
      [] m = "Normal" -> <<49, 48, 48, 54, 52, 52>>

\* Object::mode(): path.metadata() follows links, so a node is a directory,
\* a file with an execute bit, or a plain file.
Mode(node) ==
    IF node.kind = "dir" THEN "Directory"
    ELSE IF node.exec THEN "Executable" ELSE "Normal"

\* OsStr::to_string_lossy(): a byte that is no part of a UTF-8 sequence
\* becomes U+FFFD (EF BF BD).  Names here hold ASCII and the bytes FE and FF,
\* which no UTF-8 sequence contains.
ToStringLossy(name) ==
    Concat([i \in 1 .. Len(name) |->
               IF name[i] < 128 THEN <<name[i]>> ELSE <<239, 191, 189>>])

\* the key of sort_unstable_by_key: the path, with "/" pushed for a tree
TreeSortKey(path, is_tree) == IF is_tree THEN path \o <<47>> ELSE path

\* objects.sort_unstable_by_key(..): the keys of siblings are distinct
RECURSIVE SortByKey(_)
SortByKey(objs) ==
    IF objs = {} THEN <<>>
    ELSE LET first == CHOOSE o \in objs : \A p \in objs :
                          ~SeqLess(TreeSortKey(p.path, p.node.kind = "dir"),
                                   TreeSortKey(o.path, o.node.kind = "dir"))
         IN  <<first>> \o SortByKey(objs \ {first})

\* ObjectHashable::write for Object::Tree(root) over the directory dir, with
\* the hash(true) of every child: the framed bytes, the entries in written
\* order and the framed bytes of every object published on the way.
RECURSIVE TreeWriteOf(_, _)
TreeWriteOf(root, dir) ==
    LET kept == {n \in DOMAIN dir :
                    /\ n # <<46, 103, 105, 116>>
                    /\ n # <<116, 97, 114, 103, 101, 116>>
                    /\ ~(dir[n].kind = "dir" /\ DOMAIN dir[n].entries = {})}
        objs == SortByKey({[path |-> root \o <<47>> \o n, name |-> n, node |-> dir[n]] :
                              n \in kept})
        child == [i \in 1 .. Len(objs) |->
                     IF objs[i].node.kind = "dir"
                     THEN TreeWriteOf(objs[i].path, objs[i].node.entries)
                     ELSE [framed |-> BlobWrite(objs[i].node.data), entries |-> <<>>,
                           payload |-> <<>>, written |-> {}]]
        entries == [i \in 1 .. Len(objs) |->
                       [mode |-> ObjectModeDisplay(Mode(objs[i].node)),
                        name |-> ToStringLossy(objs[i].name),
                        is_tree |-> objs[i].node.kind = "dir",
                        hash |-> Sha1(child[i].framed)]]
        tbuf == Concat([i \in 1 .. Len(objs) |->
                           entries[i].mode \o <<32>> \o entries[i].name \o <<0>>
                               \o entries[i].hash])
    IN  [framed |-> <<116, 114, 101, 101, 32>> \o Decimal(Len(tbuf)) \o <<0>> \o tbuf,
         entries |-> entries,
         payload |-> tbuf,
         written |-> UNION {child[i].written \cup {child[i].framed} : i \in 1 .. Len(objs)}]

\* Object::tree(".").hash(write): the children are hashed with write = true
\* whatever write is; the tree itself is published when write is set.
HashTree(write) ==
    LET t == TreeWriteOf(<<46>>, workTree)
        published == t.written \cup (IF write THEN {t.framed} ELSE {})
        names == {ObjectName(f) : f \in published}
    IN  /\ objectDirs' = objectDirs \cup {PrefixDir(n) : n \in names}
        /\ objects' = [n \in DOMAIN objects \cup names |->
                          IF n \in names
                          THEN ZlibEncode(CHOOSE f \in published : ObjectName(f) = n)
                          ELSE objects[n]]
        /\ lastHash' = [op |-> "tree", kind |-> "Tree", payload |-> t.payload,
                        write |-> write, existed |-> ObjectName(t.framed) \in DOMAIN objects,
                        result |-> "ok", hash |-> ObjectName(t.framed)]
        /\ readBack' = NoRead
        /\ treeEntries' = t.entries
        /\ UNCHANGED workTree

TreeIdle ==
    /\ workTree = <<>>
    /\ treeEntries = <<>>

-----------------------------------------------------------------------------
(* Commits, trees read back and checkout: commit.rs, tree.rs,              *)
(* subcommand/init.rs, subcommand/commit_tree.rs, subcommand/checkout.rs   *)

\* Display for CommitAttribution of CommitAttribution::yours_truly() at the
\* second secs: "Aaron Ross <superhawky610@gmail.com> <secs> +0000"
YoursTruly(secs) ==
    <<65, 97, 114, 111, 110, 32, 82, 111, 115, 115>> \o <<32, 60>>
        \o <<115, 117, 112, 101, 114, 104, 97, 119, 107, 121, 54, 49, 48,
             64, 103, 109, 97, 105, 108, 46, 99, 111, 109>>
        \o <<62, 32>> \o Decimal(secs) \o <<32, 43, 48, 48, 48, 48>>

\* ObjectHashable::write for Object::Commit, after "commit <len>\0": the tree
\* line, a line for each parent, author, committer, a blank line, the message
CommitPayload(tree_hash, parent_hashes, secs, message) ==
    <<116, 114, 101, 101, 32>> \o tree_hash \o <<10>>
        \o Concat([i \in 1 .. Len(parent_hashes) |->
                       <<112, 97, 114, 101, 110, 116, 32>> \o parent_hashes[i] \o <<10>>])
        \o <<97, 117, 116, 104, 111, 114, 32>> \o YoursTruly(secs) \o <<10>>
        \o <<99, 111, 109, 109, 105, 116, 116, 101, 114, 32>> \o YoursTruly(secs) \o <<10>>
        \o <<10>> \o message \o <<10>>

CommitWrite(payload) ==
    ObjectTypeDisplay("Commit") \o <<32>> \o Decimal(Len(payload)) \o <<0>> \o payload

\* commit-tree <tree> -m <message>: Object::commit(commit).hash(true)
CommitTreeCmd(tree_hash, parent_hashes, secs, message) ==
    LET payload == CommitPayload(tree_hash, parent_hashes, secs, message)
    IN  Hash("commit", "Commit", payload, CommitWrite(payload), TRUE)

\* str::lines() at position pos: the line up to the next '\n' (a '\r' before
\* it dropped), and where the next line starts
LineAt(s, pos) ==
    LET e == FindByte(s, pos, 10)
        stop == IF e = 0 THEN Len(s) + 1 ELSE e
        raw == SubSeq(s, pos + 1, stop - 1)
    IN  [line |-> IF e # 0 /\ raw # <<>> /\ raw[Len(raw)] = 13
                  THEN SubSeq(raw, 1, Len(raw) - 1) ELSE raw,
         pos |-> Min(stop, Len(s))]

\* the header loop of Commit::from_buf from position pos on; tree, author
\* and committer are <<>> while no such line was seen, <<value>> after
RECURSIVE CommitHeaders(_, _, _)
CommitHeaders(s, pos, acc) ==
    IF pos >= Len(s) THEN acc
    ELSE LET l == LineAt(s, pos)
             sp == FindByte(l.line, 0, 32)
             t == SubSeq(l.line, 1, sp - 1)
             value == SubSeq(l.line, sp + 1, Len(l.line))
         IN  IF l.line = <<>> THEN acc
             ELSE IF sp = 0 THEN [acc EXCEPT !.status = "panic"]
             ELSE IF t = <<116, 114, 101, 101>>
                  THEN CommitHeaders(s, l.pos, [acc EXCEPT !.tree = <<value>>])
             ELSE IF t = <<112, 97, 114, 101, 110, 116>> THEN CommitHeaders(s, l.pos, acc)
             ELSE IF t = <<97, 117, 116, 104, 111, 114>>
                  THEN CommitHeaders(s, l.pos, [acc EXCEPT !.author = <<value>>])
             ELSE IF t = <<99, 111, 109, 109, 105, 116, 116, 101, 114>>
                  THEN CommitHeaders(s, l.pos, [acc EXCEPT !.committer = <<value>>])
             ELSE [acc EXCEPT !.status = "err"]

\* Commit::from_buf(object): the status and the tree_hash of the Commit
CommitFromBuf(ob) ==
    LET s == SubSeq(ob.contents, ob.pos + 1, ob.pos + ob.content_len)
        h == CommitHeaders(s, 0, [status |-> "ok", tree |-> <<>>, author |-> <<>>,
                                  committer |-> <<>>])
    IN  IF ob.object_type # "Commit" THEN [status |-> "err", tree_hash |-> <<>>]
        ELSE IF ob.pos + ob.content_len > Len(ob.contents) \/ ~IsUtf8(s)
             THEN [status |-> "err", tree_hash |-> <<>>]
        ELSE IF h.status # "ok" THEN [status |-> h.status, tree_hash |-> <<>>]
        ELSE IF h.tree = <<>> \/ h.author = <<>> \/ h.committer = <<>>
             THEN [status |-> "err", tree_hash |-> <<>>]
        ELSE [status |-> "ok", tree_hash |-> h.tree[1]]

\* FromStr for ObjectMode; "Err" for an unrecognized mode
ObjectModeFromStr(s) ==
    IF \E m \in ObjectMode : ObjectModeDisplay(m) = s
    THEN CHOOSE m \in ObjectMode : ObjectModeDisplay(m) = s
    ELSE "Err"

\* the loop of Tree::from_buf at position pos of the contents d: an entry is
\* read before at_eof is looked at
RECURSIVE TreeEntriesFrom(_, _, _)
TreeEntriesFrom(d, pos, acc) ==
    LET mode == ParseStr(d, pos, 32)
        name == ParseStr(d, mode.pos, 0)
    IN  IF ~mode.ok \/ ObjectModeFromStr(mode.str) = "Err" THEN [status |-> "err", entries |-> acc]
        ELSE IF ~name.ok \/ name.pos + 20 > Len(d) THEN [status |-> "err", entries |-> acc]
        ELSE LET entry == [mode |-> ObjectModeFromStr(mode.str), name |-> name.str,
                           hash |-> SubSeq(d, name.pos + 1, name.pos + 20)]
             IN  IF name.pos + 20 = Len(d)
                 THEN [status |-> "ok", entries |-> Append(acc, entry)]
                 ELSE TreeEntriesFrom(d, name.pos + 20, Append(acc, entry))

\* Tree::from_buf(object)
TreeFromBuf(ob) ==
    IF ob.object_type # "Tree" THEN [status |-> "err", entries |-> <<>>]
    ELSE TreeEntriesFrom(ob.contents, ob.pos, <<>>)

\* format!("ref: refs/heads/{}\n", "main")
HeadOfMain ==
    <<114, 101, 102, 58, 32, 114, 101, 102, 115, 47, 104, 101, 97, 100, 115, 47,
      109, 97, 105, 110, 10>>

\* init: with_default_branch("main")
InitCmd ==
    /\ IF <<".git">> \in gitDirs
       THEN UNCHANGED <<gitDirs, gitFiles>>
       ELSE /\ gitDirs' = gitDirs \cup {<<".git">>, <<".git", "objects">>, <<".git", "refs">>,
                                        <<".git", "refs", "heads">>}
            /\ gitFiles' = [p \in DOMAIN gitFiles \cup {<<".git", "HEAD">>} |->
                               IF p = <<".git", "HEAD">> THEN HeadOfMain ELSE gitFiles[p]]
    /\ UNCHANGED checkout

\* str::trim_end(): trailing white space dropped
RECURSIVE TrimEnd(_)
TrimEnd(s) ==
    IF s # <<>> /\ s[Len(s)] \in {9, 10, 11, 12, 13, 32}
    THEN TrimEnd(SubSeq(s, 1, Len(s) - 1)) ELSE s

\* the ObjectBuf read_at_hash returned
ReadBuf(r) == ObjectBuf(r.object_type, r.content_len, r.payload)

SetEntry(dir, name, node) ==
    [n \in DOMAIN dir \cup {name} |-> IF n = name THEN node ELSE dir[n]]

\* unpack_in(root, tree) of checkout.rs over the directory dir at root: the
\* status and what the directory holds afterwards
RECURSIVE UnpackIn(_, _, _)
UnpackIn(dir, entries, objs) ==
    IF entries = <<>> THEN [status |-> "ok", dir |-> dir]
    ELSE LET e == Head(entries)
             obj == ReadAtHashOf(objs, ToHex(e.hash))
             sub == TreeFromBuf(ReadBuf(obj))
             below == UnpackIn(<<>>, sub.entries, objs)
         IN  IF ~obj.ok THEN [status |-> "err", dir |-> dir]
             ELSE IF obj.object_type = "Blob"
                  THEN IF e.name \in DOMAIN dir /\ dir[e.name].kind = "dir"
                       THEN [status |-> "err", dir |-> dir]
                       ELSE UnpackIn(SetEntry(dir, e.name,
                                         [kind |-> "file",
                                          exec |-> e.name \in DOMAIN dir /\ dir[e.name].exec,
                                          data |-> obj.payload]),
                                     Tail(entries), objs)
             ELSE IF obj.object_type = "Tree"
                  THEN IF sub.status # "ok" \/ e.name \in DOMAIN dir
                       THEN [status |-> "err", dir |-> dir]
                       ELSE IF below.status # "ok"
                            THEN [status |-> below.status,
                                  dir |-> SetEntry(dir, e.name,
                                              [kind |-> "dir", entries |-> below.dir])]
                       ELSE UnpackIn(SetEntry(dir, e.name,
                                         [kind |-> "dir", entries |-> below.dir]),
                                     Tail(entries), objs)
             ELSE [status |-> "panic", dir |-> dir]

NoCheckout ==
    [status |-> "none", stage |-> "none", branch |-> "", commit_hash |-> <<>>,
     tree_hash |-> <<>>, entries |-> <<>>]

\* what run of checkout.rs leaves when it stops at a stage
CheckoutAt(stage, status, dir, commit_hash, tree_hash) ==
    [status |-> status, stage |-> stage, dir |-> dir, commit_hash |-> commit_hash,
     tree_hash |-> tree_hash, entries |-> <<>>]

\* what run of checkout.rs leaves after unpack_in returned unpacked
CheckoutUnpacked(commit_hash, tree_hash, entries, unpacked) ==
    [status |-> unpacked.status, stage |-> "unpack", dir |-> unpacked.dir,
     commit_hash |-> commit_hash, tree_hash |-> tree_hash, entries |-> entries]

\* checkout.rs from unpack_in on: tree is what Tree::from_buf returned
CheckoutUnpack(commit_hash, tree_hash, tree, objs, dir) ==
    IF tree.status # "ok" THEN CheckoutAt("from_buf", "err", dir, commit_hash, tree_hash)
    ELSE CheckoutUnpacked(commit_hash, tree_hash, tree.entries,
                          UnpackIn(dir, tree.entries, objs))

\* checkout.rs from the read of the tree object on: commit is what
\* Commit::from_buf returned
CheckoutTree(commit_hash, commit, objs, dir) ==
    IF commit.status # "ok" THEN CheckoutAt("commit", commit.status, dir, commit_hash, <<>>)
    ELSE IF Len(commit.tree_hash) < 2 THEN CheckoutAt("tree", "panic", dir, commit_hash, <<>>)
    ELSE IF ~ReadAtHashOf(objs, commit.tree_hash).ok
         THEN CheckoutAt("tree", "err", dir, commit_hash, commit.tree_hash)
    ELSE CheckoutUnpack(commit_hash, commit.tree_hash,
                        TreeFromBuf(ReadBuf(ReadAtHashOf(objs, commit.tree_hash))), objs, dir)

\* checkout.rs from the read of the commit object on
CheckoutCommit(commit_hash, objs, dir) ==
    IF Len(commit_hash) < 2 THEN CheckoutAt("commit", "panic", dir, <<>>, <<>>)
    ELSE IF ~ReadAtHashOf(objs, commit_hash).ok
         THEN CheckoutAt("commit", "err", dir, commit_hash, <<>>)
    ELSE CheckoutTree(commit_hash, CommitFromBuf(ReadBuf(ReadAtHashOf(objs, commit_hash))),
                      objs, dir)

\* checkout <branch>: the ref file, the commit, its tree, the files
CheckoutOf(branch, files, objs, dir) ==
    IF <<".git", "heads", "refs", branch>> \notin DOMAIN files
    THEN CheckoutAt("ref", "err", dir, <<>>, <<>>)
    ELSE IF ~IsUtf8(files[<<".git", "heads", "refs", branch>>])
         THEN CheckoutAt("ref", "err", dir, <<>>, <<>>)
    ELSE CheckoutCommit(TrimEnd(files[<<".git", "heads", "refs", branch>>]), objs, dir)

\* the state run of checkout.rs leaves, r being its outcome
CheckoutDone(branch, r) ==
    /\ checkout' = [status |-> r.status, stage |-> r.stage, branch |-> branch,
                    commit_hash |-> r.commit_hash, tree_hash |-> r.tree_hash,
                    entries |-> r.entries]
    /\ workTree' = r.dir
    /\ readBack' = NoRead
    /\ UNCHANGED <<gitDirs, gitFiles, objectDirs, objects, lastHash, treeEntries>>

Checkout(branch) == CheckoutDone(branch, CheckoutOf(branch, gitFiles, objects, workTree))

CheckoutIdle ==
    /\ gitDirs = {}
    /\ gitFiles = <<>>
    /\ checkout = NoCheckout

-----------------------------------------------------------------------------
(* The upload-pack response: subcommand/clone.rs                           *)

\* one call of the closure of pkt_line_iter(input) of subcommand/clone.rs:
\* flush packets are skipped, then one line is cut off the input
RECURSIVE ClonePktLineNext(_)
ClonePktLineNext(input) ==
    IF input = <<>> THEN [status |-> "none", line |-> <<>>, rest |-> <<>>]
    ELSE IF Len(input) < 4 \/ ~IsUtf8(SubSeq(input, 1, 4))
         THEN [status |-> "panic", line |-> <<>>, rest |-> input]
    ELSE LET len == FromStrRadix16(SubSeq(input, 1, 4))
         IN  IF len < 0 THEN [status |-> "panic", line |-> <<>>, rest |-> input]
             ELSE IF len = 0 THEN ClonePktLineNext(SubSeq(input, 5, Len(input)))
             ELSE IF len > Len(input) \/ len < 4
                  THEN [status |-> "panic", line |-> <<>>, rest |-> input]
             ELSE [status |-> "some", line |-> SubSeq(input, 5, len),
                   rest |-> SubSeq(input, len + 1, Len(input))]

\* str::trim_end_matches('\n')
RECURSIVE TrimEndNewlines(_)
TrimEndNewlines(s) ==
    IF s # <<>> /\ s[Len(s)] = 10 THEN TrimEndNewlines(SubSeq(s, 1, Len(s) - 1)) ELSE s

\* pkt_line_str(pkt): from_utf8(pkt).expect(..), then the newlines trimmed
PktLineStr(pkt) ==
    IF IsUtf8(pkt) THEN [ok |-> TRUE, str |-> TrimEndNewlines(pkt)]
    ELSE [ok |-> FALSE, str |-> <<>>]

\* fetch_packfile: dbg!(pkt_line_str(line_iter.next().unwrap()))
FetchFirst ==
    /\ fetchPc = "start"
    /\ LET r == ClonePktLineNext(fetchInput)
           s == PktLineStr(r.line)
       IN  IF r.status = "some" /\ s.ok
           THEN /\ fetchPc' = "lines"
                /\ fetchFirst' = s.str
                /\ fetchInput' = r.rest
           ELSE /\ fetchPc' = "panic"
                /\ UNCHANGED <<fetchFirst, fetchInput>>
    /\ UNCHANGED <<fetchPackets, packfile>>

\* fetch_packfile: one turn of for line in line_iter { .. }
FetchLine ==
    /\ fetchPc = "lines"
    /\ LET r == ClonePktLineNext(fetchInput)
           channel == r.line[1]
           line == Tail(r.line)
       IN  /\ r.status # "none"
           /\ fetchInput' = r.rest
           /\ fetchPc' = IF r.status = "panic" THEN "panic"
                         ELSE IF r.line = <<>> THEN "err"
                         ELSE IF channel = 1 THEN "lines"
                         ELSE IF channel \in {2, 3}
                              THEN IF IsUtf8(line) THEN "lines" ELSE "panic"
                         ELSE "panic"
           /\ packfile' = IF r.status = "some" /\ r.line # <<>> /\ channel = 1
                          THEN packfile \o line ELSE packfile
    /\ UNCHANGED <<fetchPackets, fetchFirst>>

\* fetch_packfile: the iterator is exhausted, Ok(packfile)
FetchDone ==
    /\ fetchPc = "lines"
    /\ ClonePktLineNext(fetchInput).status = "none"
    /\ fetchPc' = "ok"
    /\ UNCHANGED <<fetchPackets, fetchInput, fetchFirst, packfile>>

FetchIdle ==
    /\ fetchPackets = <<>>
    /\ fetchInput = <<>>
    /\ fetchPc = "start"
    /\ fetchFirst = <<>>
    /\ packfile = <<>>

-----------------------------------------------------------------------------
(* Specification of one hash and its read-back                             *)

\* The longest payload hashed.
MaxPayloadLen == 2

PayloadBytes == {0, 49}

Payloads == UNION {[1 .. k -> PayloadBytes] : k \in 0 .. MaxPayloadLen}

HashOnly ==
    UNCHANGED <<indexVars, pktVars, streamVars, packVars, treeVars, fetchVars, checkoutVars>>

InitHash ==
    StoreIdle /\ IndexIdle /\ PktIdle /\ StreamIdle /\ PackIdle /\ TreeIdle /\ FetchIdle
    /\ CheckoutIdle

NextHash ==
    \/ /\ lastHash.op = "none"
       /\ \E w \in BOOLEAN, f \in Payloads : HashObjectCmd(w, f)
       /\ HashOnly
    \/ /\ lastHash.op = "none"
       /\ \E w \in BOOLEAN, t \in ObjectType, p \in Payloads : HashObjectBuf(w, t, p)
       /\ HashOnly
    \/ /\ lastHash.op # "none"
       /\ ReadAtHash(lastHash.hash)
       /\ HashOnly

SpecHash == InitHash /\ [][NextHash]_vars

-----------------------------------------------------------------------------
(* Specification of the store under a sequence of hash operations          *)

\* The most loose objects the store holds.
MaxObjects == 3

StorePool ==
    {[t |-> "Blob", p |-> <<>>], [t |-> "Blob", p |-> <<49>>],
     [t |-> "Tree", p |-> <<49>>], [t |-> "Commit", p |-> <<49, 0>>]}

Room(framed, write) ==
    \/ ~write
    \/ ObjectName(framed) \in DOMAIN objects
    \/ Cardinality(DOMAIN objects) < MaxObjects

InitStore ==
    StoreIdle /\ IndexIdle /\ PktIdle /\ StreamIdle /\ PackIdle /\ TreeIdle /\ FetchIdle
    /\ CheckoutIdle

NextStore ==
    \/ \E w \in BOOLEAN, o \in StorePool :
          /\ o.t = "Blob"
          /\ Room(BlobWrite(o.p), w)
          /\ HashObjectCmd(w, o.p)
          /\ HashOnly
    \/ \E w \in BOOLEAN, o \in StorePool :
          /\ Room(ObjectBufWrite(ObjectBuf(o.t, Len(o.p), o.p)), w)
          /\ HashObjectBuf(w, o.t, o.p)
          /\ HashOnly
    \/ /\ \E h \in DOMAIN objects \cup {lastHash.hash} : ReadAtHash(h)
       /\ HashOnly

SpecStore == InitStore /\ [][NextStore]_vars

-----------------------------------------------------------------------------
(* Specification of one Index::write with concurrent readers              *)

\* The most entries of an Index value.
MaxEntries == 2

EntryNames == {<<97>>, <<97, 98>>}

\* (mtime, mtime_nsec, type, permissions) of the sample entries
EntryShapes == {<<4, 4, 10, 0>>, <<3, 4, 10, 0>>, <<4, 4, 8, 420>>}

EntryPool ==
    {[ctime |-> 1, ctime_nsec |-> 2, mtime |-> sh[1], mtime_nsec |-> sh[2],
      dev |-> 5, ino |-> 6, uid |-> 7, gid |-> 8, size |-> 9,
      type |-> sh[3], permissions |-> sh[4],
      hash |-> Sha1(BlobWrite(nm)), name |-> nm,
      flags |-> Min(Len(nm), 4095), flags_ext |-> 0] :
        nm \in EntryNames, sh \in EntryShapes}

Indexes ==
    {[version |-> 2, entries |-> es] :
        es \in UNION {[1 .. k -> EntryPool] : k \in 0 .. MaxEntries}}

InitIndex ==
    /\ StoreIdle /\ PktIdle /\ StreamIdle /\ PackIdle /\ TreeIdle /\ FetchIdle
    /\ CheckoutIdle
    /\ idx \in Indexes
    /\ indexFile = <<>>
    /\ wpc = "idle"
    /\ pending = <<>>
    /\ readResult = NoIndexRead

IndexOnly ==
    UNCHANGED <<storeVars, pktVars, streamVars, packVars, treeVars, fetchVars, checkoutVars>>

NextIndex ==
    \/ WriteOpen /\ IndexOnly
    \/ (\E n \in {1, Len(pending)} : WriteBytes(n)) /\ IndexOnly
    \/ AppendChecksum /\ IndexOnly
    \/ (\E build \in {"debug", "release"} : IndexRead(build)) /\ IndexOnly

SpecIndex == InitIndex /\ [][NextIndex]_vars

-----------------------------------------------------------------------------
(* Specification of one pkt-line encoded and parsed                        *)

\* The longest string of the exhaustive part.
MaxPktLen == 3

PktBytes == {10, 48, 97}

\* every short string, and long ones where the hex length gains a digit and at
\* the largest length the protocol allows
PktStrings ==
    UNION {[1 .. k -> PktBytes] : k \in 0 .. MaxPktLen}
        \cup {[i \in 1 .. n |-> 97] : n \in {11, 251, 4091, 65516}}

\* "0000", "0004", "0005a", "0006a" (cut short), "000", "0003", "+00a", "00g0"
PeerInputs ==
    {<<48, 48, 48, 48>>, <<48, 48, 48, 52>>, <<48, 48, 48, 53, 97>>,
     <<48, 48, 48, 54, 97>>, <<48, 48, 48>>, <<48, 48, 48, 51>>,
     <<43, 48, 48, 97>>, <<48, 48, 103, 48>>}

InitPktLine ==
    /\ StoreIdle /\ IndexIdle /\ StreamIdle /\ PackIdle /\ TreeIdle /\ FetchIdle
    /\ CheckoutIdle
    /\ pktS \in PktStrings
    /\ pktWire = <<>>
    /\ pktParsed = [from |-> "none", result |-> NoPacket]
    /\ pktPc = "start"

PktOnly ==
    UNCHANGED <<storeVars, indexVars, streamVars, packVars, treeVars, fetchVars, checkoutVars>>

NextPktLine ==
    \/ Repr /\ PktOnly
    \/ (\E input \in PeerInputs : Receive(input)) /\ PktOnly
    \/ Parse /\ PktOnly

SpecPktLine == InitPktLine /\ [][NextPktLine]_vars

-----------------------------------------------------------------------------
(* Specification of one response read through PacketLineStream             *)

\* The most PacketLines of a response.
MaxFrames == 3

FrameStrings == {<<>>, <<97>>, <<98>>}

InitStream ==
    /\ StoreIdle /\ IndexIdle /\ PktIdle /\ PackIdle /\ TreeIdle /\ FetchIdle
    /\ CheckoutIdle
    /\ frames \in UNION {[1 .. k -> FrameStrings] : k \in 0 .. MaxFrames}
    /\ wire = Concat([i \in 1 .. Len(frames) |-> PacketLineRepr(frames[i])])
    /\ buf = <<>>
    /\ cursor = 0
    /\ yielded = <<>>
    /\ streamPc = "open"
    /\ whole = 0
    /\ iterResult = NoIter

StreamOnly ==
    UNCHANGED <<storeVars, indexVars, pktVars, packVars, treeVars, fetchVars, checkoutVars>>

NextStream ==
    \/ (\E n \in 1 .. Len(wire) : Chunk(n)) /\ StreamOnly
    \/ InnerEnd /\ StreamOnly
    \/ Iterate /\ StreamOnly

SpecStream == InitStream /\ [][NextStream]_vars

-----------------------------------------------------------------------------
(* Specification of one Pack::open                                         *)

\* The most records of a pack file.
MaxRecords == 2

\* the size encoding of n: seven bits a byte, low bits first
RECURSIVE SizeEnc(_)
SizeEnc(n) == IF n < 128 THEN <<n>> ELSE <<128 + (n % 128)>> \o SizeEnc(n \div 128)

\* the first bytes of a record: the type and the low four bits of the size,
\* then the rest of the size
RecordHeader(obj_type, size) ==
    IF size < 16 THEN <<obj_type * 16 + size>>
    ELSE <<128 + obj_type * 16 + (size % 16)>> \o SizeEnc(size \div 16)

FullRecord(obj_type, payload) == RecordHeader(obj_type, Len(payload)) \o ZlibEncode(payload)

RefDeltaRecord(base_hash, delta) ==
    RecordHeader(7, Len(delta)) \o base_hash \o ZlibEncode(delta)

\* blob "a", commit "c", the empty blob, records of type 0, 5 and 6, and
\* deltas on blob "a": one copies its byte and adds "b", one does the same
\* under a header that declares 5 bytes, one is the bare copy opcode 0x80,
\* one copies two bytes from offset 0
RecordPool ==
    {FullRecord(3, <<97>>),
     FullRecord(1, <<99>>),
     FullRecord(3, <<>>),
     <<0>>, <<80>>, <<96>>,
     RefDeltaRecord(Sha1(ObjectBufWrite(ObjectBuf("Blob", 1, <<97>>))),
                    SizeEnc(1) \o SizeEnc(2) \o <<144, 1>> \o <<1, 98>>),
     RefDeltaRecord(Sha1(ObjectBufWrite(ObjectBuf("Blob", 1, <<97>>))),
                    SizeEnc(1) \o SizeEnc(5) \o <<144, 1>> \o <<1, 98>>),
     RefDeltaRecord(Sha1(ObjectBufWrite(ObjectBuf("Blob", 1, <<97>>))),
                    SizeEnc(1) \o SizeEnc(65536) \o <<128>>),
     RefDeltaRecord(Sha1(ObjectBufWrite(ObjectBuf("Blob", 1, <<97>>))),
                    SizeEnc(1) \o SizeEnc(2) \o <<144, 2>>)}

\* a trailer that is not the digest of the bytes before it
WrongTrailer(body) == [Sha1(body) EXCEPT ![20] = (@ + 1) % 256]

PackOf(version, obj_count, records, good) ==
    LET body == <<80, 65, 67, 75>> \o ToBE(version, 4) \o ToBE(obj_count, 4) \o Concat(records)
    IN  body \o (IF good THEN Sha1(body) ELSE WrongTrailer(body))

\* files too short to hold a header and a trailer, or with another magic
ShortFiles ==
    {<<80, 65, 67>>,
     <<80, 65, 67, 75>>,
     <<80, 65, 67, 75>> \o Zeros(16),
     <<80, 65, 67, 75>> \o Zeros(18),
     <<80, 65, 67, 75>> \o Sha1(<<80, 65, 67, 75>>),
     PackOf(2, 0, <<>>, TRUE),
     [PackOf(2, 0, <<>>, TRUE) EXCEPT ![4] = 88]}

\* a pack whose trailer starts with the byte 0 and whose body ends with 0xB0,
\* the first byte of a two-byte head: a blob of 230 bytes, and the head cut
\* by the trailer
CutHeadFiles == {PackOf(2, 2, <<FullRecord(3, Zeros(230)), <<176>>>>, TRUE)}

PackFiles ==
    ShortFiles \cup CutHeadFiles \cup
    {PackOf(version, Len(records) + extra, records, good) :
        version \in {2, 3}, extra \in {0, 1}, good \in BOOLEAN,
        records \in UNION {[1 .. k -> RecordPool] : k \in 0 .. MaxRecords}}

InitPack ==
    /\ StoreIdle /\ IndexIdle /\ PktIdle /\ StreamIdle /\ TreeIdle /\ FetchIdle
    /\ CheckoutIdle
    /\ packFile \in PackFiles
    /\ packBuild \in {"debug", "release"}
    /\ packPc = "start"
    /\ packOffset = 0
    /\ packContents = <<>>
    /\ packHeader = NoPackHeader
    /\ packDecoded = 0
    /\ packIndex = <<>>
    /\ packInstructions = <<>>

PackOnly ==
    UNCHANGED <<storeVars, indexVars, pktVars, streamVars, treeVars, fetchVars, checkoutVars>>

UnpackOnly ==
    UNCHANGED <<indexVars, pktVars, streamVars, treeVars, fetchVars, checkoutVars>>

NextPack ==
    \/ PackOpenVerify /\ PackOnly
    \/ PackDecodeRecord /\ PackOnly
    \/ PackFinish /\ PackOnly
    \/ PackWriteIndex /\ PackOnly
    \/ PackUnpack /\ UnpackOnly

SpecPack == InitPack /\ [][NextPack]_vars

-----------------------------------------------------------------------------
(* Specification of one hash of a directory and its read-back              *)

\* "a", "a.b", the one-byte names FE and FF, ".git"
TreeNames == {<<97>>, <<97, 46, 98>>, <<254>>, <<255>>, <<46, 103, 105, 116>>}

FileNodes == {[kind |-> "file", exec |-> x, data |-> <<49>>] : x \in BOOLEAN}

\* a file, an executable, an empty directory, a directory holding one file
TreeNodes ==
    FileNodes
      \cup {[kind |-> "dir", entries |-> <<>>],
            [kind |-> "dir",
             entries |-> [n \in {<<102>>} |-> [kind |-> "file", exec |-> FALSE, data |-> <<>>]]]}

\* The most entries of the directory that is hashed.
MaxTreeEntries == 3

WorkTrees ==
    UNION {[S -> TreeNodes] : S \in {T \in SUBSET TreeNames : Cardinality(T) <= MaxTreeEntries}}

InitTree ==
    /\ StoreIdle /\ IndexIdle /\ PktIdle /\ StreamIdle /\ PackIdle /\ FetchIdle
    /\ CheckoutIdle
    /\ workTree \in WorkTrees
    /\ treeEntries = <<>>

TreeOnly ==
    UNCHANGED <<indexVars, pktVars, streamVars, packVars, fetchVars, checkoutVars>>

NextTree ==
    \/ /\ lastHash.op = "none"
       /\ \E w \in BOOLEAN : HashTree(w)
       /\ TreeOnly
    \/ /\ lastHash.op # "none"
       /\ \E h \in DOMAIN objects \cup {lastHash.hash} : ReadAtHash(h)
       /\ UNCHANGED treeVars
       /\ TreeOnly

SpecTree == InitTree /\ [][NextTree]_vars

-----------------------------------------------------------------------------
(* Specification of one fetch_packfile over a response                     *)

\* The most pkt-lines of a response.
MaxPackets == 3

FlushPacket == [kind |-> "flush", payload |-> <<>>]

\* "NAK\n", two pack data packets, a progress and a fatal error packet, a
\* packet of channel 4, an empty line, a progress packet that is not UTF-8,
\* a flush, and two stray bytes
ResponsePackets ==
    {[kind |-> "data", payload |-> p] :
         p \in {<<78, 65, 75, 10>>, <<1, 120>>, <<1, 121>>, <<2, 112>>, <<3, 101>>,
                <<4>>, <<>>, <<2, 255>>}}
      \cup {FlushPacket, [kind |-> "raw", payload |-> <<122, 122>>]}

\* the bytes of one packet of the response
ResponseFrame(pk) ==
    IF pk.kind = "flush" THEN <<48, 48, 48, 48>>
    ELSE IF pk.kind = "raw" THEN pk.payload
    ELSE Hex04(Len(pk.payload) + 4) \o pk.payload

InitFetch ==
    /\ StoreIdle /\ IndexIdle /\ PktIdle /\ StreamIdle /\ PackIdle /\ TreeIdle
    /\ CheckoutIdle
    /\ fetchPackets \in UNION {[1 .. k -> ResponsePackets] : k \in 0 .. MaxPackets}
    /\ fetchInput = Concat([i \in 1 .. Len(fetchPackets) |-> ResponseFrame(fetchPackets[i])])
    /\ fetchPc = "start"
    /\ fetchFirst = <<>>
    /\ packfile = <<>>

FetchOnly ==
    UNCHANGED <<storeVars, indexVars, pktVars, streamVars, packVars, treeVars, checkoutVars>>

NextFetch ==
    \/ FetchFirst /\ FetchOnly
    \/ FetchLine /\ FetchOnly
    \/ FetchDone /\ FetchOnly

SpecFetch == InitFetch /\ [][NextFetch]_vars

-----------------------------------------------------------------------------
(* Specification of write_index over a Pack opened from a large file       *)

\* The most objects of such a Pack.
MaxLargeObjects == 3

\* a PackedObject at offset offset_hi * 2^31 + offset
LargeEntry(payload, offset_hi, offset) ==
    [Decoded(<<>>, offset, 0, 0, ObjectBuf("Blob", Len(payload), payload), <<>>).entry
        EXCEPT !.offset_hi = offset_hi]

LargeEntries ==
    {LargeEntry(p, hi, lo) : p \in {<<97>>, <<98>>, <<99>>}, hi \in 0 .. 2, lo \in {12, 40}}

\* what Pack::open returns is sorted by name; here the names are distinct
LargePacks ==
    {es \in UNION {[1 .. k -> LargeEntries] : k \in 0 .. MaxLargeObjects} :
        \A i \in 1 .. Len(es) - 1 : SeqLess(es[i].hash, es[i + 1].hash)}

\* Pack::open has returned; the file itself, longer than 2 GiB, is not held
InitLargePack ==
    /\ StoreIdle /\ IndexIdle /\ PktIdle /\ StreamIdle /\ TreeIdle /\ FetchIdle
    /\ CheckoutIdle
    /\ packFile = <<>>
    /\ packBuild = "release"
    /\ packPc = "ok"
    /\ packOffset = 0
    /\ packContents \in LargePacks
    /\ packHeader = [version |-> 2, obj_count |-> Len(packContents), checksum |-> Sha1(<<>>)]
    /\ packDecoded = Len(packContents)
    /\ packIndex = <<>>
    /\ packInstructions = <<>>

NextLargePack == PackWriteIndex /\ PackOnly

SpecLargePack == InitLargePack /\ [][NextLargePack]_vars

-----------------------------------------------------------------------------
(* Specification of Index::read over index files written by git            *)

\* The most entries of such a file, when their names are short.
MaxGitEntries == 2

\* one entry as git writes it: the stat fields, the name, the flags, two
\* bytes of extended flags when the version is 3 or more and bit 14 of the
\* flags is set, the name, and 1 to 8 NULs up to a multiple of 8 bytes
GitEntryBytes(e, version) ==
    LET ext == IF version >= 3 /\ Bit(e.flags, 14) = 1 THEN ToBE(e.flags_ext, 2) ELSE <<>>
        len == 62 + Len(ext) + Len(e.name)
    IN  ToBE(e.ctime, 4) \o ToBE(e.ctime_nsec, 4) \o ToBE(e.mtime, 4) \o ToBE(e.mtime_nsec, 4)
            \o ToBE(e.dev, 4) \o ToBE(e.ino, 4)
            \o <<0, 0>> \o ToBE(e.type * 4096 + e.permissions, 2)
            \o ToBE(e.uid, 4) \o ToBE(e.gid, 4) \o ToBE(e.size, 4)
            \o e.hash \o ToBE(e.flags, 2) \o ext
            \o e.name \o Zeros(8 - (len % 8))

GitIndexFile(index) ==
    LET body == INDEX_HEADER \o ToBE(index.version, 4) \o ToBE(Len(index.entries), 4)
                    \o Concat([i \in 1 .. Len(index.entries) |->
                                   GitEntryBytes(index.entries[i], index.version)])
    IN  body \o Sha1(body)

GitEntry(nm, flags) ==
    [ctime |-> 1, ctime_nsec |-> 2, mtime |-> 3, mtime_nsec |-> 4,
     dev |-> 5, ino |-> 6, uid |-> 7, gid |-> 8, size |-> 9,
     type |-> 8, permissions |-> 420,
     hash |-> Sha1(BlobWrite(<<49>>)), name |-> nm, flags |-> flags, flags_ext |-> 0]

\* a name of 0x1000 bytes
LongName == [i \in 1 .. 4096 |-> 97]

\* entries named "a" and "ab": flags that carry the length of the name, the
\* same with bit 14 set, and flags that carry 5 or 0xFFF instead
ShortGitEntries ==
    {GitEntry(nm, fl) : nm \in {<<97>>, <<97, 98>>}, fl \in {1, 2, 16385, 16386, 5, 4095}}

\* the long name under flags 0xFFF, as git writes it, and under flags 5
LongGitEntries == {GitEntry(LongName, fl) : fl \in {4095, 5}}

GitIndexes ==
    {[version |-> v, entries |-> es] :
        v \in {2, 3},
        es \in UNION {[1 .. k -> ShortGitEntries] : k \in 0 .. MaxGitEntries}
                 \cup {<<e>> : e \in LongGitEntries}}

InitGitIndex ==
    /\ StoreIdle /\ PktIdle /\ StreamIdle /\ PackIdle /\ TreeIdle /\ FetchIdle
    /\ CheckoutIdle
    /\ idx \in GitIndexes
    /\ indexFile = GitIndexFile(idx)
    /\ wpc = "done"
    /\ pending = <<>>
    /\ readResult = NoIndexRead

NextGitIndex == (\E build \in {"debug", "release"} : IndexRead(build)) /\ IndexOnly

SpecGitIndex == InitGitIndex /\ [][NextGitIndex]_vars

-----------------------------------------------------------------------------
(* Specification of init, write-tree, commit-tree and checkout             *)

\* "a" and "d"
CheckoutNames == {<<97>>, <<100>>}

CheckoutTrees == UNION {[S -> TreeNodes] : S \in SUBSET CheckoutNames}

Branches == {"main"}

\* git or the user writes the name of the last commit into a ref file
UpdateRef(loc, branch) ==
    /\ lastHash.op = "commit"
    /\ <<".git">> \in gitDirs
    /\ gitDirs' = gitDirs \cup {<<".git", loc[1]>>, <<".git", loc[1], loc[2]>>}
    /\ gitFiles' = [p \in DOMAIN gitFiles \cup {<<".git", loc[1], loc[2], branch>>} |->
                        IF p = <<".git", loc[1], loc[2], branch>>
                        THEN lastHash.hash \o <<10>> ELSE gitFiles[p]]
    /\ UNCHANGED checkout

\* the user empties the working directory
CleanWorkTree ==
    /\ lastHash.op = "commit"
    /\ workTree # <<>>
    /\ workTree' = <<>>
    /\ UNCHANGED treeEntries

InitCheckout ==
    /\ StoreIdle /\ IndexIdle /\ PktIdle /\ StreamIdle /\ PackIdle /\ FetchIdle
    /\ CheckoutIdle
    /\ workTree \in CheckoutTrees
    /\ treeEntries = <<>>

CheckoutOnly == UNCHANGED <<indexVars, pktVars, streamVars, packVars, fetchVars>>

NextCheckout ==
    \/ /\ checkout.status = "none"
       /\ InitCmd
       /\ UNCHANGED <<storeVars, treeVars>>
       /\ CheckoutOnly
    \/ /\ <<".git", "objects">> \in gitDirs
       /\ lastHash.op = "none"
       /\ HashTree(TRUE)
       /\ UNCHANGED checkoutVars
       /\ CheckoutOnly
    \/ /\ lastHash.op = "tree"
       /\ CommitTreeCmd(lastHash.hash, <<>>, 1, <<109>>)
       /\ UNCHANGED <<treeVars, checkoutVars>>
       /\ CheckoutOnly
    \/ /\ checkout.status = "none"
       /\ \E loc \in {<<"refs", "heads">>, <<"heads", "refs">>}, br \in Branches :
              UpdateRef(loc, br)
       /\ UNCHANGED <<storeVars, treeVars>>
       /\ CheckoutOnly
    \/ /\ checkout.status = "none"
       /\ CleanWorkTree
       /\ UNCHANGED <<storeVars, checkoutVars>>
       /\ CheckoutOnly
    \/ /\ checkout.status = "none"
       /\ \E br \in Branches : Checkout(br)
       /\ CheckoutOnly

SpecCheckout == InitCheckout /\ [][NextCheckout]_vars

-----------------------------------------------------------------------------
(* Claims about the object store                                           *)

\* The canonical framed form "<kind> <decimal length>\0" || payload.
FramedForm(t, p) == ObjectTypeDisplay(t) \o <<32>> \o Decimal(Len(p)) \o <<0>> \o p

\* C1: hash(K, P) returns the SHA-1 of "<K> <|P|>\0" || P, and after
\* hash(write = true) read_at_hash of that name yields kind K, declared
\* length |P| and payload P.
HashRoundTrip ==
    lastHash.op # "none" =>
        /\ lastHash.result = "ok"
        /\ lastHash.hash = ToHex(Sha1(FramedForm(lastHash.kind, lastHash.payload)))
        /\ lastHash.write =>
              LET r == ReadAtHashOf(objects, lastHash.hash)
              IN  /\ r.ok
                  /\ r.object_type = lastHash.kind
                  /\ r.content_len = Len(lastHash.payload)
                  /\ r.payload = lastHash.payload
        /\ (lastHash.write /\ readBack.name = lastHash.hash) =>
              /\ readBack.ok
              /\ readBack.object_type = lastHash.kind
              /\ readBack.content_len = Len(lastHash.payload)
              /\ readBack.payload = lastHash.payload

\* A written, non-empty object has been read back by its name.
HashRoundTripWitness ==
    /\ lastHash.op = "buf"
    /\ lastHash.write
    /\ lastHash.payload # <<>>
    /\ readBack.ok
    /\ readBack.name = lastHash.hash

\* The payload stored under a name.
Stored(objs, n) == ZlibStreamAt(objs[n], 0).data

\* C2: once a name is published its decoded contents never change, and
\* hash(write = true) of an object whose name is already published succeeds.
WriteOnce ==
    /\ [][\A n \in DOMAIN objects :
              n \in DOMAIN objects' /\ Stored(objects', n) = Stored(objects, n)]_vars
    /\ []((lastHash.write /\ lastHash.existed) =>
            (lastHash.result = "ok" /\ lastHash.hash \in DOMAIN objects))

\* An object whose name was already published has been written again.
WriteOnceWitness ==
    /\ lastHash.write
    /\ lastHash.existed
    /\ lastHash.result = "ok"
    /\ Cardinality(DOMAIN objects) > 1

-----------------------------------------------------------------------------
(* Claims about the staging index                                          *)

SortedByName(es) == \A i \in 1 .. Len(es) - 1 : SeqLess(es[i].name, es[i + 1].name)

\* version 2, entries sorted by name, flags = min(name.len, 0xFFF)
Canonical(index) ==
    /\ index.version = 2
    /\ SortedByName(index.entries)
    /\ \A i \in 1 .. Len(index.entries) :
          index.entries[i].flags = Min(Len(index.entries[i].name), 4095)

\* C3: Index::read of the file Index::write made of a canonical Index gives
\* back an Index equal to it in every entry field.
IndexRoundTrip ==
    (wpc = "done" /\ Canonical(idx) /\ readResult.status # "none") =>
        (readResult.status = "ok" /\ readResult.index = idx)

\* C4: the names in a written index file are strictly ascending.
WrittenIndexSorted ==
    wpc = "done" =>
        LET r == IndexReadOf(indexFile, "release")
        IN  r.status = "ok" /\ SortedByName(r.index.entries)

\* C5: a reader of a torn index file gets an error from Index::read: no
\* parsed Index and no crash.
TornReadIsError == readResult.torn => readResult.status = "err"

-----------------------------------------------------------------------------
(* Claims about pkt-lines                                                  *)

Flush == [n |-> 4, some |-> FALSE, packet |-> <<>>, panic |-> FALSE]

\* The original C6: parsing the encoding of S consumes the whole frame and
\* returns S; "0000" parses as a flush.
PktRoundTrip ==
    /\ (pktPc = "parsed" /\ pktParsed.from = "encoded") =>
          /\ pktParsed.result.n = Len(pktWire)
          /\ pktParsed.result.some
          /\ pktParsed.result.packet = pktS
    /\ (pktPc = "parsed" /\ pktWire = <<48, 48, 48, 48>>) => pktParsed.result = Flush

\* C6: for a non-empty S of at most 65516 bytes pkt_line_next consumes the
\* whole of PacketLine::new(S).repr(), |S| + 5 bytes, and returns S followed
\* by the line feed repr appends; the empty S is encoded as "0000", and "0000"
\* parses as a flush: 4 bytes consumed, no payload.
PktRoundTripNewline ==
    /\ (pktPc = "parsed" /\ pktParsed.from = "encoded" /\ pktS # <<>>) =>
          /\ pktParsed.result.n = Len(pktWire)
          /\ pktParsed.result.n = Len(pktS) + 5
          /\ pktParsed.result.some
          /\ ~pktParsed.result.panic
          /\ pktParsed.result.packet = pktS \o <<10>>
    /\ (pktPc = "parsed" /\ pktParsed.from = "encoded" /\ pktS = <<>>) =>
          pktWire = <<48, 48, 48, 48>>
    /\ (pktPc = "parsed" /\ pktWire = <<48, 48, 48, 48>>) => pktParsed.result = Flush

PktRoundTripWitness ==
    /\ pktPc = "parsed"
    /\ pktParsed.from = "encoded"
    /\ Len(pktS) = 251
    /\ pktParsed.result.n = 256
    /\ pktParsed.result.some

\* the payloads of the data packets among the frames, in order
DataPayloads(fs) ==
    LET data == SelectSeq(fs, LAMBDA f : f # <<>>)
    IN  [i \in 1 .. Len(data) |-> data[i] \o <<10>>]

\* C7: when the response holds no flush, the stream has yielded the payload of
\* every packet, once each and in order, by the time it yields end-of-stream.
StreamYieldsAll ==
    (streamPc = "done" /\ \A i \in 1 .. Len(frames) : frames[i] # <<>>) =>
        yielded = DataPayloads(frames)

\* C8: a flush takes 4 bytes and yields nothing, and the data packets after it
\* are delivered, by pkt_line_iter and by PacketLineStream (here fed one whole
\* frame a chunk).
FlushSkipped ==
    /\ iterResult.status # "none" =>
          /\ iterResult.status = "ok"
          /\ iterResult.packets = DataPayloads(frames)
          /\ iterResult.clone = [status |-> "ok", packets |-> DataPayloads(frames)]
    /\ (streamPc = "done" /\ whole = Len(frames)) =>
          /\ yielded = DataPayloads(frames)
          /\ cursor = Len(buf)

-----------------------------------------------------------------------------
(* Claims about Pack::open                                                 *)

\* the file is long enough and the SHA-1 of all but its last 20 bytes is its
\* last 20 bytes
GoodTrailer(f) ==
    Len(f) >= 20 /\ Sha1(SubSeq(f, 1, Len(f) - 20)) = SubSeq(f, Len(f) - 19, Len(f))

\* C9: Pack::open does not get past the trailer check, and so fails, when the
\* SHA-1 of the bytes before the trailer differs from it (with an error when
\* the file holds a header and a trailer); no record is decoded before the
\* check has passed; on success Pack.checksum is the last 20 bytes.
TrailerChecked ==
    /\ ~GoodTrailer(packFile) =>
          /\ packPc \in {"start", "err", "panic"}
          /\ (packPc = "panic" => Len(packFile) < 24)
    /\ (packDecoded > 0 \/ packContents # <<>>) =>
          (GoodTrailer(packFile) /\ packPc # "start")
    /\ packPc = "ok" =>
          /\ GoodTrailer(packFile)
          /\ packHeader.checksum = SubSeq(packFile, Len(packFile) - 19, Len(packFile))

TrailerCheckedWitness ==
    /\ packPc = "ok"
    /\ packDecoded > 0
    /\ Len(packContents) = packDecoded

\* C10: on success the number of entries returned is the object count of the
\* header.
CountMatches == packPc = "ok" => Len(packContents) = packHeader.obj_count

\* the object type bits of the record that starts at offset
RecordTypeAt(f, offset) == IF offset < Len(f) THEN (f[offset + 1] \div 16) % 8 ELSE -1

\* C11: the list Pack::open returns is ascending by the 20-byte object name.
ContentsSorted ==
    packPc = "ok" =>
        \A i \in 1 .. Len(packContents) - 1 :
            ~SeqLess(packContents[i + 1].hash, packContents[i].hash)

\* a pack whose records come in another order than their names
ContentsSortedWitness ==
    /\ packPc = "ok"
    /\ \E i \in 1 .. Len(packContents) - 1 :
          /\ packContents[i].offset > packContents[i + 1].offset
          /\ SeqLess(packContents[i].hash, packContents[i + 1].hash)

\* the record at the offset is a RefDelta with its 20 name bytes, and no entry
\* decoded so far has that name
MissingBase ==
    /\ packPc = "loop"
    /\ packOffset # Len(packFile) - 20
    /\ RecordTypeAt(packFile, packOffset) = 7
    /\ LET hdr == ParseSizeEncBytes(packFile, packOffset, <<>>)
           p == packOffset + Len(hdr.bytes)
       IN  /\ hdr.ok
           /\ p + 20 <= Len(packFile)
           /\ \A i \in 1 .. Len(packContents) :
                 packContents[i].hash # SubSeq(packFile, p + 1, p + 20)

\* C12: a RefDelta whose base is not among the records decoded so far makes
\* Pack::open fail with an error, and no object is produced for the record.
MissingBaseIsError ==
    [][MissingBase => (packPc' = "err" /\ packContents' = packContents)]_vars

\* C13: a record of kind 6 makes Pack::open fail with an error value, as
\* records of kind 0 and 5 do.
UnsupportedKindIsError ==
    [][(packPc = "loop" /\ packOffset # Len(packFile) - 20
            /\ RecordTypeAt(packFile, packOffset) \in {0, 5, 6})
          => (packPc' = "err" /\ packContents' = packContents)]_vars

\* C14: Pack::open succeeds only on a pack of version 2.
VersionTwoOnly == packPc = "ok" => packHeader.version = 2

\* entry i of the fan-out table in the index file
FanOutEntry(f, i) == FromBE(SubSeq(f, 9 + 4 * i, 12 + 4 * i))

\* C15: the index file holds 256 fan-out entries, entry i being the number of
\* objects whose name begins with a byte <= i; so the entries never decrease
\* and the last one is the number of objects.
FanOutCumulative ==
    packPc = "indexed" =>
        /\ Len(packIndex) = 8 + 4 * 256 + 28 * Len(packContents) + 40
        /\ \A i \in 0 .. 255 :
              FanOutEntry(packIndex, i)
                  = Cardinality({k \in 1 .. Len(packContents) : packContents[k].hash[1] <= i})
        /\ \A i \in 0 .. 254 : FanOutEntry(packIndex, i) <= FanOutEntry(packIndex, i + 1)
        /\ FanOutEntry(packIndex, 255) = Len(packContents)

FanOutCumulativeWitness ==
    /\ packPc = "indexed"
    /\ Len(packContents) = 2
    /\ packContents[1].hash[1] < packContents[2].hash[1]
    /\ FanOutEntry(packIndex, packContents[1].hash[1]) = 1

-----------------------------------------------------------------------------
(* Claims about tree payloads                                              *)

\* the key of an entry of a tree payload: its name, with "/" for a subtree
EntryKey(e) == IF e.is_tree THEN e.name \o <<47>> ELSE e.name

\* C16: in every tree payload written by hashing a directory, the keys of
\* any two consecutive sibling entries are strictly ascending.
TreeOrdered ==
    lastHash.op = "tree" =>
        \A i \in 1 .. Len(treeEntries) - 1 :
            SeqLess(EntryKey(treeEntries[i]), EntryKey(treeEntries[i + 1]))

-----------------------------------------------------------------------------
(* Claims about the upload-pack response                                   *)

NAK == <<78, 65, 75>>

\* C17: when the first packet of the response does not decode as "NAK", the
\* fetch fails and nothing is added to the received pack.
NakRequired ==
    fetchPc # "start" /\ fetchFirst # NAK => fetchPc # "ok" /\ packfile = <<>>

\* the lines of the response after the first one, flush packets skipped
SideBandLines == Tail(SelectSeq(fetchPackets, LAMBDA pk : pk.kind # "flush"))

\* the payloads of the channel-1 lines before the first line of channel 3
RECURSIVE PackBytesOf(_)
PackBytesOf(lines) ==
    IF lines = <<>> \/ Head(lines).payload[1] = 3 THEN <<>>
    ELSE IF Head(lines).payload[1] = 1
         THEN Tail(Head(lines).payload) \o PackBytesOf(Tail(lines))
    ELSE PackBytesOf(Tail(lines))

\* C18: the received pack is the concatenation, in arrival order, of the
\* payloads of the channel-1 packets; no packet after a channel-3 packet
\* adds bytes to it.
SideBandPack == fetchPc = "ok" => packfile = PackBytesOf(SideBandLines)

-----------------------------------------------------------------------------
(* Claims about deltas                                                     *)

\* C19: a delta-reconstructed object Pack::open returns has the payload
\* length its delta header declares: its size and the length its hashed
\* header states are the length of its payload.
DeltaSizeChecked ==
    \A i \in 1 .. Len(packContents) :
        RecordTypeAt(packFile, packContents[i].offset) = 7 =>
            /\ packContents[i].size = Len(packContents[i].inner.contents)
            /\ packContents[i].inner.content_len = Len(packContents[i].inner.contents)

\* C20: a COPY instruction whose read size is 0 copies 0x10000 bytes, so no
\* decoded delta holds a copy of size 0; offset and size bytes are read low
\* byte first.
CopyZeroIsLarge ==
    \A i \in 1 .. Len(packInstructions) :
        packInstructions[i].op = "Copy" => packInstructions[i].size # 0

-----------------------------------------------------------------------------
(* Claims about the offsets of the pack index                              *)

\* entry i (from 1) of layer 4 and entry k (from 0) of layer 5 of an index
\* file of n objects
Layer4Entry(f, n, i) == SubSeq(f, 1032 + 24 * n + 4 * (i - 1) + 1, 1032 + 24 * n + 4 * i)

Layer5Entry(f, n, k) == SubSeq(f, 1032 + 28 * n + 8 * k + 1, 1032 + 28 * n + 8 * k + 8)

\* how many objects before the i-th have an offset above 0x7FFFFFFF
LargeBefore(i) == Cardinality({j \in 1 .. i - 1 : packContents[j].offset_hi # 0})

\* C21: in layer 4 an offset <= 0x7FFFFFFF is stored as it is, and the k-th
\* larger one as 0x80000000 | k, with its 64-bit offset as entry k of layer 5.
LargeOffsetsIndexed ==
    packPc = "indexed" =>
        \A i \in 1 .. Len(packContents) :
            LET e == packContents[i]
                n == Len(packContents)
                k == LargeBefore(i)
            IN  IF e.offset_hi = 0
                THEN Layer4Entry(packIndex, n, i) = ToBE(e.offset, 4)
                ELSE /\ Layer4Entry(packIndex, n, i) = [ToBE(k, 4) EXCEPT ![1] = @ + 128]
                     /\ Layer5Entry(packIndex, n, k) = U64OffsetBytes(e)

-----------------------------------------------------------------------------
(* Claims about reading index files                                        *)

\* the low 12 bits of the flags carry the length of the name, or 0xFFF
FlagsCarryLength(e) == e.flags % 4096 = Min(Len(e.name), 4095)

\* C22: extended flags are read exactly when the version is 3 or more and
\* bit 14 of the flags is set, so a version-3 index whose entries all have
\* bit 14 clear is read successfully, its entries as they are in the file.
ExtFlagsGated ==
    /\ readResult.status # "none"
    /\ idx.version = 3
    /\ \A i \in 1 .. Len(idx.entries) :
           Bit(idx.entries[i].flags, 14) = 0 /\ FlagsCarryLength(idx.entries[i])
    => /\ readResult.status = "ok"
       /\ readResult.index.entries = idx.entries

\* C23: Index::read accepts no entry whose low 12 flag bits are not 0xFFF
\* and differ from the length of its name, however long the name is.
NameLengthChecked ==
    readResult.status = "ok" =>
        \A i \in 1 .. Len(readResult.index.entries) :
            LET e == readResult.index.entries[i]
            IN  e.flags % 4096 # 4095 => Len(e.name) = e.flags % 4096

-----------------------------------------------------------------------------
(* Claims about the positions of the records of a pack                     *)

\* where the record at offset ends: its head bytes, the 20 bytes of a base
\* name for a RefDelta, and the whole of its zlib stream
RecordEnd(f, offset) ==
    LET size_bytes == ParseSizeEncBytes(f, offset, <<>>)
        p == offset + Len(size_bytes.bytes)
               + (IF RecordTypeAt(f, offset) = 7 THEN 20 ELSE 0)
        z == ZlibStreamAt(f, p)
    IN  IF size_bytes.ok /\ z.ok THEN p + z.span ELSE -1

\* C24: each record is decoded at the tracked offset, which then moves on by
\* head_len + compressed_len (+ 20 for a RefDelta); the PackedObject holds
\* that offset and the CRC32 of the bytes from there to the next record.
OffsetTracksRecords ==
    [][packPc = "loop" /\ packPc' = "loop" =>
          LET e == packContents'[Len(packContents')]
          IN  /\ e.offset = packOffset
              /\ packOffset' = RecordEnd(packFile, packOffset)
              /\ e.crc32 = Crc32(SubSeq(packFile, packOffset + 1, packOffset'))]_vars

-----------------------------------------------------------------------------
(* Claims about checkout                                                   *)

\* the ref file of a branch in the layout init creates
RefPath(branch) == <<".git", "refs", "heads", branch>>

\* C25: checkout <branch> resolves the branch from .git/refs/heads/<branch>:
\* where that file holds the name of a stored commit, checkout reads that
\* commit.
CheckoutReadsRef ==
    /\ checkout.status # "none"
    /\ RefPath(checkout.branch) \in DOMAIN gitFiles
    /\ TrimEnd(gitFiles[RefPath(checkout.branch)]) \in DOMAIN objects
    => checkout.commit_hash = TrimEnd(gitFiles[RefPath(checkout.branch)])

\* C30: Tree::from_buf returns the entries of a tree payload in stored order,
\* the empty list for the empty tree: checkout, once it has read the tree
\* object write-tree wrote, goes on with the entries write-tree wrote.
TreeReadBack ==
    checkout.stage \in {"from_buf", "unpack"} =>
        /\ checkout.stage = "unpack"
        /\ checkout.entries
              = [i \in 1 .. Len(treeEntries) |->
                    [mode |-> ObjectModeFromStr(treeEntries[i].mode),
                     name |-> treeEntries[i].name,
                     hash |-> treeEntries[i].hash]]

-----------------------------------------------------------------------------
(* Claims about hash without write                                         *)

\* C26: hash(write = false) leaves the object store unchanged: hashing a
\* directory without write publishes no loose object, neither for the tree
\* nor for any of its children.
DryHashKeepsStore ==
    [][lastHash' # lastHash /\ ~lastHash'.write =>
          UNCHANGED <<objectDirs, objects>>]_vars

-----------------------------------------------------------------------------
(* Claims about Pack::unpack                                               *)

\* C27: hashing a decoded PackedObject again returns the same name: however
\* often Pack::unpack has run on a decoded pack, every loose object it has
\* published carries the name PackedObject.hash of an entry.
UnpackIdempotent ==
    packPc = "ok" =>
        DOMAIN objects \subseteq
            {ToHex(packContents[i].hash) : i \in 1 .. Len(packContents)}

-----------------------------------------------------------------------------
(* Claims about COPY ranges                                                *)

\* the record at the offset is a RefDelta on an entry decoded so far, and one
\* of its COPY instructions names bytes the payload of that entry lacks
CopyOutOfRange ==
    /\ packPc = "loop"
    /\ packOffset # Len(packFile) - 20
    /\ RecordTypeAt(packFile, packOffset) = 7
    /\ LET hdr == ParseSizeEncBytes(packFile, packOffset, <<>>)
           p == packOffset + Len(hdr.bytes)
           size == size_enc_init(Tail(hdr.bytes), hdr.bytes[1] % 16, 4)
           found == {i \in 1 .. Len(packContents) :
                        packContents[i].hash = SubSeq(packFile, p + 1, p + 20)}
       IN  /\ hdr.ok
           /\ p + 20 <= Len(packFile)
           /\ found # {}
           /\ \A r \in SplitOffDecode(packFile, p + 20, size) :
                 LET c == r.contents
                     size_base_bytes == ParseSizeEncBytes(c, 0, <<>>)
                     size_new_bytes == ParseSizeEncBytes(c, Len(size_base_bytes.bytes), <<>>)
                     parsed == ParseInstructions(
                                   c, Len(size_base_bytes.bytes) + Len(size_new_bytes.bytes), <<>>)
                     base == packContents[CHOOSE i \in found : \A j \in found : i <= j]
                 IN  /\ r.ok /\ size_base_bytes.ok /\ size_new_bytes.ok /\ parsed.ok
                     /\ \E k \in 1 .. Len(parsed.instructions) :
                           /\ parsed.instructions[k].op = "Copy"
                           /\ parsed.instructions[k].offset + parsed.instructions[k].size
                                  > Len(base.inner.contents)

\* C28: a COPY instruction whose range [offset, offset + size) is not within
\* the base payload makes Pack::open return an error value: the decoder does
\* not crash and no object is produced for the record.
CopyRangeIsError ==
    [][CopyOutOfRange => (packPc' = "err" /\ packContents' = packContents)]_vars

-----------------------------------------------------------------------------
(* Claims about the end of the decode loop                                 *)

\* C29: Pack::open terminates on every file whose trailer verifies: each turn
\* of the loop moves the offset on, within the file; the loop returns only at
\* offset L - 20, with entries that all lie before the trailer; and once the
\* offset is past L - 20 the loop stops with an error.
OpenTerminates ==
    [][packPc = "loop" =>
          /\ packPc' = "loop" =>
                 packOffset < packOffset' /\ packOffset' <= Len(packFile)
          /\ packPc' = "ok" =>
                 /\ packOffset = Len(packFile) - 20
                 /\ \A i \in 1 .. Len(packContents') :
                       packContents'[i].offset < Len(packFile) - 20
          /\ packOffset > Len(packFile) - 20 => packPc' \in {"loop", "err"}]_vars

====
